---- MODULE Spec2Model ----
(***************************************************************************)
(* A model of the execution core of the social-media automation service:   *)
(*   - AdvancedProcessingService.executeWithRetry  (the Retry Coordinator) *)
(*   - AdvancedProcessingService.processBatch      (the Batch Dispatcher)  *)
(*   - AutomationEngine.executeTask / executeWithRetry (the Task Executor) *)
(* Every action is one synchronous stretch of the code between two awaits. *)
(***************************************************************************)
EXTENDS Integers, Sequences, FiniteSets, Bags, TLC

(***************************************************************************)
(* Bounds of the model.                                                    *)
(***************************************************************************)
\* largest retryConfig.maxRetries the coordinator is configured with
MaxRetriesCfg == 7
\* largest number of items handed to processBatch
MaxItems == 11
\* the longest target list of a task, for direct runs of executeTask
MaxTgt == 3
\* direct runs of executeTask in a row
MaxRuns == 2
\* the longest target list of a task run under the engine's executeWithRetry
RtMaxTgt == 2
\* largest maxRetries argument of the engine's executeWithRetry
MaxEngineRetries == 3
\* how far below and above a platform's limit the lengths of the texts range
TcSlack == 8
\* how many milliseconds the scheduler's clock advances
MaxTicks == 2
\* longest execution history given to getOptimalScheduleTime, the scenario's apart
MaxHist == 2
\* longest execution history given to predictFailure, the ten-execution ones apart
MaxRiskHist == 5
\* longest execution history given to analyzeErrors
MaxErrHist == 2
\* most successful, and most failed, executions of a short history given to
\* generatePerformanceReport
MaxIds == 3
MaxRequests == 2
MaxPolls == 2
MaxScTasks == 2
MaxCacheTicks == 3
MaxRepHist == 6

(***************************************************************************)
(* Program constants.                                                      *)
(***************************************************************************)
DefaultMaxRetries == 3
InitialDelay == 1000
MaxDelay == 30000
BackoffMultiplier == 2
batchSize == 5
DefaultEngineRetries == 3
EmptyAccountId == 0

VARIABLES
  \* ---- Retry Coordinator (AdvancedProcessingService.executeWithRetry) ----
  retryConfig,   \* the service's retryConfig field
  rcPc,          \* "idle" | "attempting" | "waiting" | "done"
  rcAttempt,     \* the loop variable attempt
  rcLastError,   \* the local lastError ("null" before the first failure)
  rcCalls,       \* how often fn has been invoked
  rcLog,         \* what each settled invocation of fn did, in order
  rcDelays,      \* the delays handed to setTimeout, in order
  rcOutcome,     \* how the call completed: [kind, value]
  \* ---- Batch Dispatcher (AdvancedProcessingService.processBatch) ----
  tasks,         \* number of items of the list (items are 1..tasks)
  pbThrows,      \* the items for which the call processor(task) itself throws
  pbPc,          \* "idle" | "running" | "done" | "rejected" (the call rejected)
  pbI,           \* the loop variable i (0-based offset of the current group)
  pbState,       \* per item: "notstarted" | "inflight" | "fulfilled" | "rejected" | "threw"
  pbCalls,       \* per item: how often processor was called with it
  successful,    \* the local counter successful
  failed,        \* the local counter failed
  pbResult,      \* the returned {successful, failed}, or NoCounts
  \* ---- Task Executor: inputs and collaborators ----
  task,          \* the Task argument: [sourceAccounts, targetAccounts] (account ids)
  accounts,      \* the key set of the accounts map argument
  now,           \* the wall clock
  lastExecuted,  \* the stored task's lastExecuted (0: absent)
  dbExecutions,  \* the store's executions of the task (what getTaskExecutions returns)
  initCalls,     \* the accounts platformManager.initializeClient was called with, this run
  distCalls,     \* the target lists platformManager.distributeContent was called with, this run
  distResults,   \* the success flags distributeContent returned, this run (<<>>: none)
  initResults,   \* whether each initializeClient call of this run fulfilled, in order
  raised,        \* the step whose exception the top-level catch caught, this run, or "none"
  \* ---- Task Executor: AutomationEngine.executeTask ----
  pc,            \* "idle" | "init" | "distribute" | "update" | "returned"
  sourceAccounts,\* the local sourceAccounts (resolved ids)
  destAccounts,  \* the local destAccounts (resolved ids)
  initIdx,       \* position of the init loop in [...sourceAccounts, ...destAccounts]
  errors,        \* the local errors
  itemsProcessed,
  itemsFailed,
  execution,     \* the TaskExecution the last run returned, or NoExecution
  runs,          \* how many runs of executeTask have returned
  \* ---- Task Executor: AutomationEngine.executeWithRetry ----
  rtPc,          \* "idle" | "running" | "sleeping" | "done"
  maxRetries,    \* the maxRetries argument
  attempt,       \* the loop variable attempt
  lastError,     \* the local lastError (NoExecution: null)
  sleeps,        \* the delays handed to setTimeout, in order
  attemptLog,    \* the status of every attempt that returned, in order
  retResult,     \* the TaskExecution executeWithRetry returned, or NoExecution
  posted,        \* the accounts the earlier attempts of this call published to successfully
  \* ---- Content Transformer: AutomationEngine.transformContent ----
  tcText,        \* the text argument
  tcPlatform,    \* the platform argument
  tcTransformations, \* task.transformations: [prependText, appendText, addHashtags]
  tcPc,          \* "idle" | "done"
  tcResult,      \* the returned string
  \* ---- Scheduler: AutomationEngine.getTasksDueForExecution ----
  dbTask,        \* the task in the store
  clock,         \* the current time, [d: day, ms: millisecond of the day]
  ticks,         \* how often the clock has advanced
  allTasks,      \* the tasks db.getActiveTasks() resolved with
  pollNow,       \* the value of now in the last poll
  dueTasks,      \* the tasks the last poll returned
  duPc,          \* "idle" | "fetched" | "done"
  \* ---- Scheduler: AutomationEngine.scheduleTask ----
  stTask,        \* the task argument
  stNow,         \* what new Date() gives, [y, m: 0..11, d, ms: millisecond of the day]
  stPc,          \* "idle" | "done"
  stResult,      \* the returned Date, absent for null
  \* ---- Performance Advisor: AdvancedProcessingService.getOptimalScheduleTime ----
  opExecutions,  \* what db.getTaskExecutions(task.id) resolves with
  opClock,       \* the time at the first reading of the clock, [d, ms]
  opNow2,        \* the time at the second reading, in the comparison of line 144
  opPc,          \* "idle" | "awaiting" | "done"
  opResult,      \* the returned Date, [d, ms]
  \* ---- Risk Analyzer: AdvancedProcessingService.predictFailure ----
  rkExecutions,  \* the statuses of what db.getTaskExecutions(task.id) resolves with
  rkSources,     \* task.sourceAccounts
  rkAccounts,    \* per account id: "missing" | "active" | "inactive"
  rkAge,         \* Date.now() - task.createdAt.getTime(), [d, ms]
  rkPc,          \* "idle" | "executions" | "accounts" | "done"
  riskScore,     \* the local riskScore
  factors,       \* the local factors
  rkResult,      \* the returned {riskLevel, factors}
  \* ---- Risk Analyzer: AdvancedProcessingService.analyzeErrors ----
  aeExecutions,  \* what db.getTaskExecutions(task.id) resolves with: [status, error]
  aePc,          \* "idle" | "awaiting" | "done"
  aeResult,      \* the returned suggestions
  \* ---- Performance Advisor: AdvancedProcessingService.generatePerformanceReport ----
  rpExecutions,  \* what db.getTaskExecutions(task.id) resolves with: a bag of statuses
  rpPc,          \* "idle" | "awaiting" | "done"
  rpResult,      \* the returned report
  \* ---- InMemoryDB tasks and executions, MaintenanceService ----
  memUsers,      \* this.users: the ids of the stored users
  memTasks,      \* this.tasks: the stored tasks, in insertion order
  memExecutions, \* this.executions: the stored execution records, in insertion order
  created,       \* every record createExecution has returned, in order
  nextId,        \* the next value of crypto.randomUUID()
  memToday,         \* the day of new Date()
  mtPc,          \* "idle" | "ensureUser" | "getUserTasks" | "scan" | "rest"
  mtCaller,      \* "cleanupOldExecutions" | "runFullMaintenance"
  cutoffDate,    \* the day before which an execution is old
  mtTasks,       \* the tasks of the snapshot still to scan
  deletedCount,  \* the running count of cleanupOldExecutions
  mtResult,      \* what the last cleanupOldExecutions returned
  \* ---- POST /api/accounts, getOrCreateAccount, InMemoryDB accounts ----
  acUsers,       \* this.users: the ids of the stored users
  acAccounts,    \* this.accounts: the stored accounts, in insertion order
  acNextId,      \* the next value of crypto.randomUUID()
  acReq,         \* per request: its position, its payload and its locals
  \* ---- polls of the due set, pauses, and the runs of the due tasks ----
  scStore,       \* this.tasks: the stored tasks, in insertion order
  scPc,          \* "idle" | "fetched" | "executing"
  scSnapshot,    \* allTasks: what db.getActiveTasks() resolved with, this poll
  scDue,         \* the tasks of the returned due set not yet executed
  polls,         \* the number of snapshots taken so far
  selected,      \* the ids of the due set the last poll returned
  started,       \* the executeTask calls: task id, poll, stored status at the call
  pausedAt,      \* per task id: the number of snapshots taken when it was paused
  running,       \* the runs that have started and not returned: [id, poll]
  \* ---- AdvancedProcessingService cache ----
  cache,         \* this.cache: per key, the stored { data, timestamp } or none
  chNow,         \* Date.now(), in ms
  chTicks,       \* the number of clock advances so far
  lastSet,       \* per key, the last setCached since the last clearCache, or none
  chKey,         \* the key of the last getCached
  chResult,      \* what the last getCached returned
  chFresh,       \* whether that getCached was the last thing to happen
  utAdapter,     \* the adapter in use: "memory" (InMemoryDB) or "postgres" (PostgresDB)
  utRow,         \* the stored task
  utRow0,        \* the task as it was stored at the start
  utReq,         \* the client's update: through the PATCH route or by db.updateTask
  utPc,          \* where each caller of updateTask is
  utExisting     \* PostgresDB.updateTask's existing, per caller

rcVars == <<retryConfig, rcPc, rcAttempt, rcLastError, rcCalls, rcLog, rcDelays, rcOutcome>>
pbVars == <<tasks, pbThrows, pbPc, pbI, pbState, pbCalls, successful, failed, pbResult>>
inVars == <<task, accounts, now>>
exVars == <<lastExecuted, dbExecutions, initCalls, distCalls, distResults, initResults, raised,
            pc, sourceAccounts, destAccounts, initIdx, errors, itemsProcessed, itemsFailed,
            execution, runs>>
rtVars == <<rtPc, maxRetries, attempt, lastError, sleeps, attemptLog, retResult, posted>>
engVars == <<inVars, exVars, rtVars>>
tcVars == <<tcText, tcPlatform, tcTransformations, tcPc, tcResult>>
duVars == <<dbTask, clock, ticks, allTasks, pollNow, dueTasks, duPc>>
stVars == <<stTask, stNow, stPc, stResult>>
opVars == <<opExecutions, opClock, opNow2, opPc, opResult>>
aeVars == <<aeExecutions, aePc, aeResult>>
rpVars == <<rpExecutions, rpPc, rpResult>>
rkVars == <<rkExecutions, rkSources, rkAccounts, rkAge, rkPc, riskScore, factors, rkResult>>
mmVars == <<memUsers, memTasks, memExecutions, created, nextId, memToday,
            mtPc, mtCaller, cutoffDate, mtTasks, deletedCount, mtResult>>
acVars == <<acUsers, acAccounts, acNextId, acReq>>
scVars == <<scStore, scPc, scSnapshot, scDue, polls, selected, started, pausedAt,
            running>>
chVars == <<cache, chNow, chTicks, lastSet, chKey, chResult, chFresh>>
utVars == <<utAdapter, utRow, utRow0, utReq, utPc, utExisting>>
fnVars == <<tcVars, duVars, stVars, opVars, rkVars, aeVars, rpVars, mmVars, acVars, scVars, chVars, utVars>>
coreVars == <<rcVars, pbVars, engVars>>
\* every variable but those of one component
notTc == <<coreVars, duVars, stVars, opVars, rkVars, aeVars, rpVars, mmVars, acVars,
           scVars, chVars, utVars>>
notDu == <<coreVars, tcVars, stVars, opVars, rkVars, aeVars, rpVars, mmVars, acVars,
           scVars, chVars, utVars>>
notSt == <<coreVars, tcVars, duVars, opVars, rkVars, aeVars, rpVars, mmVars, acVars,
           scVars, chVars, utVars>>
notOp == <<coreVars, tcVars, duVars, stVars, rkVars, aeVars, rpVars, mmVars, acVars,
           scVars, chVars, utVars>>
notRk == <<coreVars, tcVars, duVars, stVars, opVars, aeVars, rpVars, mmVars, acVars,
           scVars, chVars, utVars>>
notAe == <<coreVars, tcVars, duVars, stVars, opVars, rkVars, rpVars, mmVars, acVars,
           scVars, chVars, utVars>>
notRp == <<coreVars, tcVars, duVars, stVars, opVars, rkVars, aeVars, mmVars, acVars,
           scVars, chVars, utVars>>
notMm == <<coreVars, tcVars, duVars, stVars, opVars, rkVars, aeVars, rpVars, acVars,
           scVars, chVars, utVars>>
notAc == <<coreVars, tcVars, duVars, stVars, opVars, rkVars, aeVars, rpVars, mmVars,
           scVars, chVars, utVars>>
notSc == <<coreVars, tcVars, duVars, stVars, opVars, rkVars, aeVars, rpVars, mmVars,
           acVars, chVars, utVars>>
notCh == <<coreVars, tcVars, duVars, stVars, opVars, rkVars, aeVars, rpVars, mmVars,
           acVars, scVars, utVars>>
notUt == <<coreVars, tcVars, duVars, stVars, opVars, rkVars, aeVars, rpVars, mmVars,
           acVars, scVars, chVars>>
vars == <<coreVars, fnVars>>

Min(a, b) == IF a <= b THEN a ELSE b

RECURSIVE Pow(_, _)
\* Math.pow on non-negative integer arguments
Pow(b, e) == IF e = 0 THEN 1 ELSE b * Pow(b, e - 1)

(***************************************************************************)
(* Retry Coordinator                                                       *)
(***************************************************************************)
FnValues == {"v1", "v2"}
FnErrors == {"e1", "e2"}
\* what one invocation of fn can do: fulfil with a value or fail with an error
FnOutcomes == [ok : {TRUE}, val : FnValues] \cup [ok : {FALSE}, val : FnErrors]

NullValue == "null"
NoOutcome == [kind |-> "none", value |-> NullValue]

\* faulty variant: the loop stops one attempt early
RcLoopCondition_Short(a, cfg) == a < cfg.maxRetries

\* the loop condition: attempt <= this.retryConfig.maxRetries
RcLoopCondition(a, cfg) == a <= cfg.maxRetries

\* faulty variant: a failed attempt always sleeps, the last one too
RcShouldSleep_Always(a, cfg) == TRUE

\* the condition under which a failed attempt sleeps: attempt < maxRetries
RcShouldSleep(a, cfg) == a < cfg.maxRetries

\* faulty variant: the delay is not capped
RetryDelay_Uncapped(a, cfg) == cfg.initialDelay * Pow(cfg.backoffMultiplier, a)

\* Math.min(initialDelay * Math.pow(backoffMultiplier, attempt), maxDelay)
RetryDelay(a, cfg) ==
  Min(cfg.initialDelay * Pow(cfg.backoffMultiplier, a), cfg.maxDelay)

\* faulty variant: the last error is rethrown once the loop has run out
RcExhausted_Throws(err) == [kind |-> "thrown", value |-> err]

\* what the call completes with once the loop has run out: return null
RcExhausted(err) == [kind |-> "returned", value |-> NullValue]

\* what the call completes with when fn fulfilled: return await fn()
RcSucceeded(v) == [kind |-> "returned", value |-> v]

RcConfigs ==
  [maxRetries : 0..MaxRetriesCfg, initialDelay : {InitialDelay},
   maxDelay : {MaxDelay}, backoffMultiplier : {BackoffMultiplier}]

RcIdle ==
  /\ rcPc = "idle"
  /\ rcAttempt = 0
  /\ rcLastError = NullValue
  /\ rcCalls = 0
  /\ rcLog = <<>>
  /\ rcDelays = <<>>
  /\ rcOutcome = NoOutcome

RcInit ==
  /\ retryConfig \in RcConfigs
  /\ RcIdle

RcParked ==
  /\ retryConfig = [maxRetries |-> DefaultMaxRetries, initialDelay |-> InitialDelay,
                    maxDelay |-> MaxDelay, backoffMultiplier |-> BackoffMultiplier]
  /\ RcIdle

\* the call: attempt = 0, the loop condition holds, fn() is invoked and awaited
RcStart ==
  /\ rcPc = "idle"
  /\ rcAttempt' = 0
  /\ rcLastError' = NullValue
  /\ rcLog' = <<>>
  /\ rcDelays' = <<>>
  /\ IF RcLoopCondition(0, retryConfig)
       THEN /\ rcPc' = "attempting"
            /\ rcCalls' = 1
            /\ rcOutcome' = NoOutcome
       ELSE /\ rcPc' = "done"
            /\ rcCalls' = 0
            /\ rcOutcome' = RcExhausted(NullValue)
  /\ UNCHANGED <<retryConfig, pbVars, engVars, fnVars>>

\* fn() settles: return its value, or catch, and then sleep or leave the loop
RcSettle ==
  /\ rcPc = "attempting"
  /\ \E o \in FnOutcomes :
       /\ rcLog' = Append(rcLog, o)
       /\ IF o.ok
            THEN /\ rcPc' = "done"
                 /\ rcOutcome' = RcSucceeded(o.val)
                 /\ UNCHANGED <<rcAttempt, rcLastError, rcCalls, rcDelays>>
            ELSE /\ rcLastError' = o.val
                 /\ IF RcShouldSleep(rcAttempt, retryConfig)
                      THEN /\ rcDelays' = Append(rcDelays, RetryDelay(rcAttempt, retryConfig))
                           /\ rcPc' = "waiting"
                           /\ UNCHANGED <<rcAttempt, rcCalls, rcOutcome>>
                      ELSE \* attempt++ and the loop condition, then the code after the loop
                           /\ rcAttempt' = rcAttempt + 1
                           /\ UNCHANGED rcDelays
                           /\ IF RcLoopCondition(rcAttempt + 1, retryConfig)
                                THEN /\ rcPc' = "attempting"
                                     /\ rcCalls' = rcCalls + 1
                                     /\ UNCHANGED rcOutcome
                                ELSE /\ rcPc' = "done"
                                     /\ rcOutcome' = RcExhausted(o.val)
                                     /\ UNCHANGED rcCalls
  /\ UNCHANGED <<retryConfig, pbVars, engVars, fnVars>>

\* the timer fires: attempt++, the loop condition, the next fn() is invoked
RcWake ==
  /\ rcPc = "waiting"
  /\ rcAttempt' = rcAttempt + 1
  /\ IF RcLoopCondition(rcAttempt + 1, retryConfig)
       THEN /\ rcPc' = "attempting"
            /\ rcCalls' = rcCalls + 1
            /\ UNCHANGED rcOutcome
       ELSE /\ rcPc' = "done"
            /\ rcOutcome' = RcExhausted(rcLastError)
            /\ UNCHANGED rcCalls
  /\ UNCHANGED <<retryConfig, rcLastError, rcLog, rcDelays, pbVars, engVars, fnVars>>

(***************************************************************************)
(* Batch Dispatcher                                                        *)
(***************************************************************************)
NoCounts == [successful |-> -1, failed |-> -1]

\* faulty variant: the slice drops the last item of a full group
Batch_ShortSlice(i, n) == {k \in 1..n : i < k /\ k < i + batchSize}

\* tasks.slice(i, i + batchSize): the items of the group that starts at offset i
Batch(i, n) == {k \in 1..n : i < k /\ k <= i + batchSize}

\* faulty variant: the awaited promise resolves as soon as one promise of the group settled
AllSettled_Any(i, n, st) == \E k \in {j \in 1..n : i < j /\ j <= i + batchSize} : st[k] \in {"fulfilled", "rejected"}

\* Promise.allSettled: the awaited promise resolves once every promise of the
\* group has settled
AllSettled(i, n, st) == \A k \in Batch(i, n) : st[k] \in {"fulfilled", "rejected"}

\* batch.map(task => processor(task)) calls the worker for the items of the group in
\* order; a call that throws ends the map, so the items after it are not called
Called(i, n) == {k \in Batch(i, n) : \A j \in Batch(i, n) \cap pbThrows : k <= j}

\* whether batch.map throws, which rejects the promise processBatch returned
MapThrows(i, n) == Batch(i, n) \cap pbThrows # {}

\* batch.map(task => processor(task)): the state of the worker calls of the group
StartBatch(i, n, st) ==
  [k \in 1..n |-> IF k \in Called(i, n)
                   THEN (IF k \in pbThrows THEN "threw" ELSE "inflight")
                   ELSE st[k]]

CallBatch(i, n, c) == [k \in 1..n |-> IF k \in Called(i, n) THEN c[k] + 1 ELSE c[k]]

PbIdle ==
  /\ pbPc = "idle"
  /\ pbI = 0
  /\ pbState = [k \in 1..tasks |-> "notstarted"]
  /\ pbCalls = [k \in 1..tasks |-> 0]
  /\ successful = 0
  /\ failed = 0
  /\ pbResult = NoCounts

PbInit ==
  /\ tasks \in 0..MaxItems
  /\ pbThrows = {}
  /\ PbIdle

\* a processor that is not an async function: its call can throw for one item
PbInitSync ==
  /\ tasks \in 0..MaxItems
  /\ pbThrows \in {{}} \cup {{k} : k \in 1..tasks}
  /\ PbIdle

PbParked ==
  /\ tasks = 0
  /\ pbThrows = {}
  /\ PbIdle

\* the call: the counters, and the first pass of the loop up to its await
PbStart ==
  /\ pbPc = "idle"
  /\ pbI' = 0
  /\ successful' = 0
  /\ failed' = 0
  /\ IF 0 < tasks
       THEN /\ pbState' = StartBatch(0, tasks, pbState)
            /\ pbCalls' = CallBatch(0, tasks, pbCalls)
            /\ pbPc' = IF MapThrows(0, tasks) THEN "rejected" ELSE "running"
            /\ pbResult' = NoCounts
       ELSE /\ pbPc' = "done"
            /\ pbResult' = [successful |-> 0, failed |-> 0]
            /\ UNCHANGED <<pbState, pbCalls>>
  /\ UNCHANGED <<tasks, pbThrows, rcVars, engVars, fnVars>>

\* one worker call settles
PbSettle ==
  /\ pbPc \in {"running", "rejected"}
  /\ \E k \in 1..tasks, r \in {"fulfilled", "rejected"} :
       /\ pbState[k] = "inflight"
       /\ pbState' = [pbState EXCEPT ![k] = r]
  /\ UNCHANGED <<tasks, pbThrows, pbPc, pbI, pbCalls, successful, failed, pbResult, rcVars, engVars, fnVars>>

\* allSettled resolves: results.forEach, i += batchSize, and the next pass or the return
PbAdvance ==
  /\ pbPc = "running"
  /\ AllSettled(pbI, tasks, pbState)
  /\ LET s == successful + Cardinality({k \in Batch(pbI, tasks) : pbState[k] = "fulfilled"})
         f == failed + Cardinality({k \in Batch(pbI, tasks) : pbState[k] # "fulfilled"})
         i == pbI + batchSize
     IN /\ successful' = s
        /\ failed' = f
        /\ pbI' = i
        /\ IF i < tasks
             THEN /\ pbState' = StartBatch(i, tasks, pbState)
                  /\ pbCalls' = CallBatch(i, tasks, pbCalls)
                  /\ pbPc' = IF MapThrows(i, tasks) THEN "rejected" ELSE "running"
                  /\ UNCHANGED pbResult
             ELSE /\ pbPc' = "done"
                  /\ pbResult' = [successful |-> s, failed |-> f]
                  /\ UNCHANGED <<pbState, pbCalls>>
  /\ UNCHANGED <<tasks, pbThrows, rcVars, engVars, fnVars>>

(***************************************************************************)
(* Task Executor: AutomationEngine.executeTask                             *)
(* An ExecutionError is modelled without its message and timestamp, a      *)
(* TaskExecution without its id, taskId and times.                         *)
(***************************************************************************)
\* the account ids a task can name and the account map can hold
AccountIds == {1, 2}

\* the account ids used for runs under the engine's executeWithRetry
RetryAccountIds == {1, 2}

\* the platform of an account of the map
PlatformOf(id) == IF id % 2 = 1 THEN "twitter" ELSE "facebook"

NoExecution == [status |-> "none", itemsProcessed |-> 0, itemsFailed |-> 0, errors |-> <<>>]

\* ids.map(id => accounts.get(id)).filter(a => a !== undefined)
Resolve(ids, accts) == SelectSeq(ids, LAMBDA id : id \in accts)

\* the status expression of the returned TaskExecution
ExecutionStatus(nFailed, nProcessed) ==
  IF nFailed = 0 THEN "success"
  ELSE IF nFailed = nProcessed THEN "failed"
  ELSE "partial"

\* the value of itemsProcessed once the run reaches distribution
ProcessedAtDistribution(dest) == 1

\* the object executeTask returns
MakeExecution(nProcessed, nFailed, errs) ==
  [status |-> ExecutionStatus(nFailed, nProcessed), itemsProcessed |-> nProcessed,
   itemsFailed |-> nFailed, errors |-> errs]

\* faulty variant: the error is not marked retryable
ClientInitError_NotRetryable(id) ==
  [platform |-> PlatformOf(id), accountId |-> id, code |-> "CLIENT_INIT_ERROR",
   retryable |-> FALSE]

\* the error pushed by the catch around initializeClient
ClientInitError(id) ==
  [platform |-> PlatformOf(id), accountId |-> id, code |-> "CLIENT_INIT_ERROR",
   retryable |-> TRUE]

\* the error pushed for an unsuccessful publish result
PublishError(id) ==
  [platform |-> PlatformOf(id), accountId |-> id, code |-> "PUBLISH_ERROR",
   retryable |-> TRUE]

\* the error pushed by the top-level catch
ExecutionError ==
  [platform |-> "unknown", accountId |-> EmptyAccountId, code |-> "EXECUTION_ERROR",
   retryable |-> TRUE]

\* what platformManager.distributeContent can do: throw, or return one result per
\* target account, in order, each successful or not
DistOutcomes(dest) ==
  [threw : {TRUE}, results : {<<>>}] \cup
  [threw : {FALSE}, results : [1..Len(dest) -> BOOLEAN]]

\* the indices of the unsuccessful results, in order
FailedResults(results) ==
  SelectSeq([i \in 1..Len(results) |-> i], LAMBDA i : ~results[i])

\* the errors the loop over the results pushes
PublishErrors(dest, results) ==
  [j \in 1..Len(FailedResults(results)) |-> PublishError(dest[FailedResults(results)[j]])]

\* the stores the run writes its TaskExecution to (executeTask calls no
\* db.createExecution: the record is only returned)
PersistExecution(store, ex) == store

\* faulty variant: lastExecuted is stored only after a run without failed publishes
LastExecutedUpdate_OnSuccess(prev, time, nFailed) == IF nFailed = 0 THEN time ELSE prev

\* line 83: the lastExecuted db.updateTask stores, after a run with nFailed
\* failed publishes of a task whose lastExecuted was prev
LastExecutedUpdate(prev, time, nFailed) == time

\* lines 97-109 for a run that ends with these counters and errors
ExecReturn(nProcessed, nFailed, errs) ==
  /\ itemsProcessed' = nProcessed
  /\ itemsFailed' = nFailed
  /\ errors' = errs
  /\ execution' = MakeExecution(nProcessed, nFailed, errs)
  /\ dbExecutions' = PersistExecution(dbExecutions, MakeExecution(nProcessed, nFailed, errs))
  /\ runs' = runs + 1
  /\ pc' = "returned"

\* faulty variant: the catch records the error without counting it
ExecCatch_NotCounted(nProcessed, nFailed, errs) ==
  ExecReturn(nProcessed, nFailed, Append(errs, ExecutionError))

\* the top-level catch, then the return
ExecCatch(nProcessed, nFailed, errs) ==
  ExecReturn(nProcessed, nFailed + 1, Append(errs, ExecutionError))

\* lines 19-43: the call of executeTask up to its first await
ExecBegin ==
  LET src == Resolve(task.sourceAccounts, accounts)
      dst == Resolve(task.targetAccounts, accounts)
  IN /\ initCalls' = IF Len(src) = 0 \/ Len(dst) = 0 THEN <<>> ELSE <<(src \o dst)[1]>>
     /\ distCalls' = <<>>
     /\ distResults' = <<>>
     /\ initResults' = <<>>
     /\ raised' = IF Len(src) = 0 \/ Len(dst) = 0 THEN "validation" ELSE "none"
     /\ sourceAccounts' = src
     /\ destAccounts' = IF Len(src) = 0 THEN <<>> ELSE dst
     /\ initIdx' = 1
     /\ IF Len(src) = 0 \/ Len(dst) = 0
          THEN ExecCatch(0, 0, <<>>)
          ELSE /\ pc' = "init"
               /\ errors' = <<>>
               /\ itemsProcessed' = 0
               /\ itemsFailed' = 0
               /\ execution' = NoExecution
               /\ UNCHANGED <<dbExecutions, runs>>
     /\ UNCHANGED lastExecuted

\* a direct call of executeTask
ExecuteTask ==
  /\ pc \in {"idle", "returned"}
  /\ runs < MaxRuns
  /\ ExecBegin
  /\ UNCHANGED <<inVars, rtVars, rcVars, pbVars, fnVars>>

\* initializeClient settles: the next initializeClient, or lines 56-67
InitSettle ==
  /\ pc = "init"
  /\ \E ok \in BOOLEAN :
       LET all == sourceAccounts \o destAccounts
           errs == IF ok THEN errors ELSE Append(errors, ClientInitError(all[initIdx]))
       IN /\ errors' = errs
          /\ initResults' = Append(initResults, ok)
          /\ IF initIdx < Len(all)
               THEN /\ initIdx' = initIdx + 1
                    /\ initCalls' = Append(initCalls, all[initIdx + 1])
                    /\ UNCHANGED <<pc, itemsProcessed, distCalls>>
               ELSE /\ itemsProcessed' = ProcessedAtDistribution(destAccounts)
                    /\ distCalls' = Append(distCalls, destAccounts)
                    /\ pc' = "distribute"
                    /\ UNCHANGED <<initIdx, initCalls>>
  /\ UNCHANGED <<lastExecuted, dbExecutions, distResults, raised, sourceAccounts, destAccounts,
                 itemsFailed, execution, runs, inVars, rtVars, rcVars, pbVars, fnVars>>

\* distributeContent settles: the loop over the results and the call of
\* db.updateTask, or the top-level catch
DistSettle ==
  /\ pc = "distribute"
  /\ \E o \in DistOutcomes(destAccounts) :
       /\ distResults' = o.results
       /\ raised' = IF o.threw THEN "distribute" ELSE raised
       /\ IF o.threw
         THEN ExecCatch(itemsProcessed, itemsFailed, errors)
         ELSE /\ itemsFailed' = itemsFailed + Len(FailedResults(o.results))
              /\ errors' = errors \o PublishErrors(destAccounts, o.results)
              /\ pc' = "update"
              /\ UNCHANGED <<itemsProcessed, execution, dbExecutions, runs>>
  /\ UNCHANGED <<lastExecuted, initCalls, distCalls, initResults, sourceAccounts,
                 destAccounts, initIdx, inVars, rtVars, rcVars, pbVars, fnVars>>

\* db.updateTask settles: lastExecuted is stored and the run returns, or the store
\* failed and the top-level catch runs
UpdateSettle ==
  /\ pc = "update"
  /\ \E ok \in BOOLEAN :
       IF ok
         THEN /\ lastExecuted' = LastExecutedUpdate(lastExecuted, now, itemsFailed)
              /\ UNCHANGED raised
              /\ ExecReturn(itemsProcessed, itemsFailed, errors)
         ELSE /\ UNCHANGED lastExecuted
              /\ raised' = "update"
              /\ ExecCatch(itemsProcessed, itemsFailed, errors)
  /\ UNCHANGED <<initCalls, distCalls, distResults, initResults, sourceAccounts, destAccounts,
                 initIdx, inVars, rtVars, rcVars, pbVars, fnVars>>

(***************************************************************************)
(* Task Executor: AutomationEngine.executeWithRetry                        *)
(* executeTask has no throwing statement outside its own try, so the catch *)
(* of lines 249-270 is never entered and has no action here.               *)
(***************************************************************************)
\* the synthetic result returned when lastError is null
UnknownErrorExecution ==
  [status |-> "failed", itemsProcessed |-> 0, itemsFailed |-> 1,
   errors |-> <<[platform |-> "unknown", accountId |-> EmptyAccountId,
                 code |-> "UNKNOWN_ERROR", retryable |-> FALSE]>>]

\* lastError || { ... UNKNOWN_ERROR ... }
RetryFallback(le) == IF le = NoExecution THEN UnknownErrorExecution ELSE le

\* faulty variant: a partial result is retried like a failed one
RetryAccepts_SuccessOnly(status) == status = "success"

\* the statuses on which the loop returns the execution at once
RetryAccepts(status) == status = "success" \/ status = "partial"

\* the loop condition: attempt < maxRetries
RetryLoopCondition(a, m) == a < m

\* the condition under which a failed attempt sleeps: attempt < maxRetries - 1
RetryShouldSleep(a, m) == a < m - 1

\* Math.pow(2, attempt) * 1000
EngineRetryDelay(a) == Pow(2, a) * 1000

\* the call: the first pass of the loop up to its await, or the fallback
RetryStart ==
  /\ rtPc = "idle"
  /\ attempt' = 0
  /\ lastError' = NoExecution
  /\ sleeps' = <<>>
  /\ attemptLog' = <<>>
  /\ posted' = {}
  /\ IF RetryLoopCondition(0, maxRetries)
       THEN /\ ExecBegin
            /\ rtPc' = "running"
            /\ retResult' = NoExecution
       ELSE /\ rtPc' = "done"
            /\ retResult' = RetryFallback(NoExecution)
            /\ UNCHANGED exVars
  /\ UNCHANGED <<inVars, maxRetries, rcVars, pbVars, fnVars>>

\* executeTask has returned: return it, or remember it and sleep, or leave the loop
RetryOnResult ==
  /\ rtPc = "running"
  /\ pc = "returned"
  /\ attemptLog' = Append(attemptLog, execution.status)
  /\ posted' = posted \cup {destAccounts[i] : i \in {k \in 1..Len(distResults) : distResults[k]}}
  /\ IF RetryAccepts(execution.status)
       THEN /\ retResult' = execution
            /\ rtPc' = "done"
            /\ UNCHANGED <<attempt, lastError, sleeps>>
       ELSE /\ lastError' = execution
            /\ IF RetryShouldSleep(attempt, maxRetries)
                 THEN /\ sleeps' = Append(sleeps, EngineRetryDelay(attempt))
                      /\ rtPc' = "sleeping"
                      /\ UNCHANGED <<attempt, retResult>>
                 ELSE /\ attempt' = attempt + 1
                      /\ retResult' = RetryFallback(execution)
                      /\ rtPc' = "done"
                      /\ UNCHANGED sleeps
  /\ UNCHANGED <<inVars, exVars, maxRetries, rcVars, pbVars, fnVars>>

\* the timer fires: attempt++, the loop condition, the next executeTask
RetryWake ==
  /\ rtPc = "sleeping"
  /\ attempt' = attempt + 1
  /\ IF RetryLoopCondition(attempt + 1, maxRetries)
       THEN /\ ExecBegin
            /\ rtPc' = "running"
            /\ UNCHANGED retResult
       ELSE /\ rtPc' = "done"
            /\ retResult' = RetryFallback(lastError)
            /\ UNCHANGED exVars
  /\ UNCHANGED <<inVars, maxRetries, lastError, sleeps, attemptLog, posted, rcVars, pbVars, fnVars>>

SeqsUpTo(ids, n) == UNION {[1..k -> ids] : k \in 0..n}

ExIdle ==
  /\ lastExecuted = 0
  /\ dbExecutions = <<>>
  /\ initCalls = <<>>
  /\ distCalls = <<>>
  /\ distResults = <<>>
  /\ initResults = <<>>
  /\ raised = "none"
  /\ pc = "idle"
  /\ sourceAccounts = <<>>
  /\ destAccounts = <<>>
  /\ initIdx = 1
  /\ errors = <<>>
  /\ itemsProcessed = 0
  /\ itemsFailed = 0
  /\ execution = NoExecution
  /\ runs = 0

RtIdle ==
  /\ rtPc = "idle"
  /\ attempt = 0
  /\ lastError = NoExecution
  /\ sleeps = <<>>
  /\ attemptLog = <<>>
  /\ retResult = NoExecution
  /\ posted = {}

EngParked ==
  /\ task = [sourceAccounts |-> <<>>, targetAccounts |-> <<>>]
  /\ accounts = {}
  /\ now = 1
  /\ maxRetries = DefaultEngineRetries
  /\ ExIdle
  /\ RtIdle

(***************************************************************************)
(* Content Transformer: AutomationEngine.transformContent                  *)
(* A string is a sequence of runs [c, n]: n >= 1 copies of the character   *)
(* c. An optional field is [present, val].                                 *)
(***************************************************************************)
\* the string of n copies of c
Lit(c, n) == IF n = 0 THEN <<>> ELSE <<[c |-> c, n |-> n]>>

RECURSIVE StrLen(_)
\* String.prototype.length
StrLen(str) == IF str = <<>> THEN 0 ELSE Head(str).n + StrLen(Tail(str))

RECURSIVE Substring0(_, _)
\* str.substring(0, m)
Substring0(str, m) ==
  IF m <= 0 \/ str = <<>> THEN <<>>
  ELSE IF Head(str).n <= m THEN <<Head(str)>> \o Substring0(Tail(str), m - Head(str).n)
  ELSE <<[c |-> Head(str).c, n |-> m]>>

RECURSIVE Join(_, _)
\* Array.prototype.join
Join(strs, sep) ==
  IF strs = <<>> THEN <<>>
  ELSE IF Len(strs) = 1 THEN strs[1]
  ELSE strs[1] \o sep \o Join(Tail(strs), sep)

Newline == Lit("\n", 1)
Ellipsis == Lit(".", 3)

Absent(v) == [present |-> FALSE, val |-> v]
Present(v) == [present |-> TRUE, val |-> v]

\* the truthiness of an optional string: neither undefined nor ''
TruthyStr(opt) == opt.present /\ StrLen(opt.val) > 0

\* the truthiness of addHashtags?.length
TruthyList(opt) == opt.present /\ Len(opt.val) > 0

\* getPlatformMaxLength
getPlatformMaxLength(platform) ==
  CASE platform = "twitter" -> 280
    [] platform = "tiktok" -> 2200
    [] platform = "instagram" -> 2200
    [] platform = "facebook" -> 63206
    [] platform = "youtube" -> 5000
    [] platform = "telegram" -> 4096
    [] platform = "linkedin" -> 3000
    [] platform = "threads" -> 500
    [] OTHER -> 10000

\* faulty variant: the ellipsis is appended to a prefix of maxLength characters
Truncate_NoRoom(str, maxLength) ==
  IF StrLen(str) > maxLength THEN Substring0(str, maxLength) \o Ellipsis ELSE str

\* lines 131-133: the truncation to the platform's length
Truncate(str, maxLength) ==
  IF StrLen(str) > maxLength THEN Substring0(str, maxLength - 3) \o Ellipsis ELSE str

\* faulty variant: the hashtag block follows on the next line, with no blank line
transformContent_NoBlankLine(text, platform, tr) ==
  LET t1 == IF TruthyStr(tr.prependText) THEN tr.prependText.val \o Newline \o text ELSE text
      t2 == IF TruthyStr(tr.appendText) THEN t1 \o Newline \o tr.appendText.val ELSE t1
      t3 == IF TruthyList(tr.addHashtags)
              THEN t2 \o Newline \o Join(tr.addHashtags.val, Lit(" ", 1))
              ELSE t2
  IN Truncate(t3, getPlatformMaxLength(platform))

\* transformContent(text, platform, task)
transformContent(text, platform, tr) ==
  LET t1 == IF TruthyStr(tr.prependText) THEN tr.prependText.val \o Newline \o text ELSE text
      t2 == IF TruthyStr(tr.appendText) THEN t1 \o Newline \o tr.appendText.val ELSE t1
      t3 == IF TruthyList(tr.addHashtags)
              THEN t2 \o Newline \o Newline \o Join(tr.addHashtags.val, Lit(" ", 1))
              ELSE t2
  IN Truncate(t3, getPlatformMaxLength(platform))

Platforms ==
  {"twitter", "tiktok", "instagram", "facebook", "youtube", "telegram", "linkedin",
   "threads", "mastodon"}

\* the texts tried for a platform: empty, one character, and around its limit
TcTexts(platform) ==
  {Lit("t", n) : n \in {0, 1} \cup
     ((getPlatformMaxLength(platform) - TcSlack)..(getPlatformMaxLength(platform) + TcSlack))}

TcOptStrings(c) == {Absent(<<>>), Present(<<>>), Present(Lit(c, 2))}

TcHashtags ==
  {Absent(<<>>), Present(<<>>), Present(<<Lit("#", 2)>>),
   Present(<<Lit("#", 2), Lit("#", 2)>>)}

TcIdle ==
  /\ tcPc = "idle"
  /\ tcResult = <<>>

TcInit ==
  /\ tcPlatform \in Platforms
  /\ tcText \in TcTexts(tcPlatform)
  /\ tcTransformations \in
       [prependText : TcOptStrings("p"), appendText : TcOptStrings("a"),
        addHashtags : TcHashtags]
  /\ TcIdle

TcParked ==
  /\ tcPlatform = "twitter"
  /\ tcText = <<>>
  /\ tcTransformations =
       [prependText |-> Absent(<<>>), appendText |-> Absent(<<>>),
        addHashtags |-> Absent(<<>>)]
  /\ TcIdle

\* one call of transformContent
TransformContent ==
  /\ tcPc = "idle"
  /\ tcResult' = transformContent(tcText, tcPlatform, tcTransformations)
  /\ tcPc' = "done"
  /\ UNCHANGED <<tcText, tcPlatform, tcTransformations, notTc>>

(***************************************************************************)
(* Scheduler: AutomationEngine.getTasksDueForExecution                     *)
(* An instant, and a difference of instants, is [d, ms]: d days and ms     *)
(* milliseconds, 0 <= ms < DayMs.                                          *)
(***************************************************************************)
\* 24 * 60 * 60 * 1000
DayMs == 86400000

Time(d, ms) == [d |-> d, ms |-> ms]

\* a <= b, of instants or of differences
TimeLE(a, b) == IF a.d = b.d THEN a.ms <= b.ms ELSE a.d < b.d

\* t advanced by n milliseconds, 0 <= n < DayMs
PlusMs(t, n) ==
  IF t.ms + n >= DayMs THEN Time(t.d + 1, t.ms + n - DayMs) ELSE Time(t.d, t.ms + n)

\* t set back by n days and advanced by k milliseconds
Ago(t, n, k) == PlusMs(Time(t.d - n, t.ms), k)

\* later.getTime() - earlier.getTime()
Diff(later, earlier) ==
  IF later.ms >= earlier.ms
    THEN Time(later.d - earlier.d, later.ms - earlier.ms)
    ELSE Time(later.d - earlier.d - 1, later.ms - earlier.ms + DayMs)

\* n * 24 * 60 * 60 * 1000
Days(n) == Time(n, 0)

\* faulty variant: a scheduled task is due only after its scheduleTime
ScheduledDue_Strict(t, nowD) == ~TimeLE(nowD, t.scheduleTime.val)

\* line 202: task.scheduleTime <= now
ScheduledDue(t, nowD) == TimeLE(t.scheduleTime.val, nowD)

\* faulty variant: the period must have been exceeded
RecurringDue_Strict(t, nowD) ==
  IF ~t.lastExecuted.present THEN TRUE
  ELSE LET diff == Diff(nowD, t.lastExecuted.val)
       IN CASE t.recurringPattern.val = "daily" -> ~TimeLE(diff, Days(1))
            [] t.recurringPattern.val = "weekly" -> ~TimeLE(diff, Days(7))
            [] t.recurringPattern.val = "monthly" -> ~TimeLE(diff, Days(30))
            [] OTHER -> FALSE

\* faulty variant: an unrecognized pattern is treated as daily
RecurringDue_DefaultDaily(t, nowD) ==
  IF ~t.lastExecuted.present THEN TRUE
  ELSE LET diff == Diff(nowD, t.lastExecuted.val)
       IN CASE t.recurringPattern.val = "weekly" -> TimeLE(Days(7), diff)
            [] t.recurringPattern.val = "monthly" -> TimeLE(Days(30), diff)
            [] OTHER -> TimeLE(Days(1), diff)

\* lines 206-218: a recurring task with a pattern
RecurringDue(t, nowD) ==
  IF ~t.lastExecuted.present THEN TRUE
  ELSE LET diff == Diff(nowD, t.lastExecuted.val)
       IN CASE t.recurringPattern.val = "daily" -> TimeLE(Days(1), diff)
            [] t.recurringPattern.val = "weekly" -> TimeLE(Days(7), diff)
            [] t.recurringPattern.val = "monthly" -> TimeLE(Days(30), diff)
            [] OTHER -> FALSE

\* faulty variant: only an immediate task without a scheduleTime is due
isDue_ImmediateUnscheduled(t, nowD) ==
  IF t.executionType = "scheduled" /\ t.scheduleTime.present THEN ScheduledDue(t, nowD)
  ELSE IF t.executionType = "recurring" /\ t.recurringPattern.present
    THEN RecurringDue(t, nowD)
  ELSE t.executionType = "immediate" /\ ~t.scheduleTime.present

\* lines 200-222: the filter of getTasksDueForExecution
isDue(t, nowD) ==
  IF t.executionType = "scheduled" /\ t.scheduleTime.present THEN ScheduledDue(t, nowD)
  ELSE IF t.executionType = "recurring" /\ t.recurringPattern.present
    THEN RecurringDue(t, nowD)
  ELSE t.executionType = "immediate"

\* the clock at the start: just after, or just before, midnight of day 40
DuClocks == {Time(40, 0), Time(40, DayMs - 1)}

\* the tasks in the store when the clock shows c
DuTasks(c) ==
  [status : {"active", "paused"},
   executionType : {"immediate", "scheduled", "recurring"},
   scheduleTime : {Absent(c), Present(Ago(c, 0, 0)), Present(Ago(c, 0, 1)),
                   Present(Ago(c, 0, 2))},
   recurringPattern : {Absent(""), Present("daily"), Present("weekly"),
                       Present("monthly"), Present("custom")},
   lastExecuted : {Absent(c), Present(Ago(c, 0, 0)), Present(Ago(c, 1, 1)),
                   Present(Ago(c, 7, 1)), Present(Ago(c, 30, 1))}]

DuIdle ==
  /\ ticks = 0
  /\ allTasks = <<>>
  /\ pollNow = clock
  /\ dueTasks = <<>>
  /\ duPc = "idle"

DuInit ==
  /\ clock \in DuClocks
  /\ dbTask \in DuTasks(clock)
  /\ DuIdle

DuParked ==
  /\ clock = Time(40, 0)
  /\ dbTask = [status |-> "paused", executionType |-> "immediate",
               scheduleTime |-> Absent(clock), recurringPattern |-> Absent(""),
               lastExecuted |-> Absent(clock)]
  /\ DuIdle

\* getTasksDueForExecution up to the await of db.getActiveTasks()
GetActiveTasks ==
  /\ duPc # "fetched"
  /\ allTasks' = IF dbTask.status = "active" THEN <<dbTask>> ELSE <<>>
  /\ duPc' = "fetched"
  /\ UNCHANGED <<dbTask, clock, ticks, pollNow, dueTasks, notDu>>

\* getTasksDueForExecution from now = new Date() to its return
FilterDue ==
  /\ duPc = "fetched"
  /\ pollNow' = clock
  /\ dueTasks' = SelectSeq(allTasks, LAMBDA t : isDue(t, clock))
  /\ duPc' = "done"
  /\ UNCHANGED <<dbTask, clock, ticks, allTasks, notDu>>

\* a millisecond passes
Tick ==
  /\ ticks < MaxTicks
  /\ clock' = PlusMs(clock, 1)
  /\ ticks' = ticks + 1
  /\ UNCHANGED <<dbTask, allTasks, pollNow, dueTasks, duPc, notDu>>

\* faulty variant: a scheduled task that has run is marked completed
UpdateLastExecuted_Completes ==
  /\ dbTask.lastExecuted # Present(clock)
  /\ dbTask' = [dbTask EXCEPT !.lastExecuted = Present(clock),
                              !.status = IF dbTask.executionType = "scheduled"
                                           THEN "completed" ELSE @]
  /\ UNCHANGED <<clock, ticks, allTasks, pollNow, dueTasks, duPc, notDu>>

\* executeTask's db.updateTask(task.id, {lastExecuted: new Date()})
UpdateLastExecuted ==
  /\ dbTask.lastExecuted # Present(clock)
  /\ dbTask' = [dbTask EXCEPT !.lastExecuted = Present(clock)]
  /\ UNCHANGED <<clock, ticks, allTasks, pollNow, dueTasks, duPc, notDu>>

(***************************************************************************)
(* Scheduler: AutomationEngine.scheduleTask                                *)
(* A Date is [y, m, d, ms] in the fields the Date setters work on: year,   *)
(* month 0..11, day of the month, millisecond of the day.                  *)
(***************************************************************************)
Date(y, m, d, ms) == [y |-> y, m |-> m, d |-> d, ms |-> ms]

IsLeapYear(y) == (y % 4 = 0 /\ y % 100 # 0) \/ y % 400 = 0

\* the number of days of month m of year y
DaysIn(y, m) ==
  IF m = 1 THEN (IF IsLeapYear(y) THEN 29 ELSE 28)
  ELSE IF m \in {3, 5, 8, 10} THEN 30 ELSE 31

RECURSIVE MakeDay(_, _, _, _)
\* the Date with the given fields, a month after 11 carried into the year and a
\* day after the month's last carried into the month
MakeDay(y, m, d, ms) ==
  IF m > 11 THEN MakeDay(y + 1, m - 12, d, ms)
  ELSE IF d > DaysIn(y, m) THEN MakeDay(y, m + 1, d - DaysIn(y, m), ms)
  ELSE Date(y, m, d, ms)

\* Date.prototype.setDate
setDate(date, d) == MakeDay(date.y, date.m, d, date.ms)

\* Date.prototype.setMonth
setMonth(date, m) == MakeDay(date.y, m, date.d, date.ms)

\* faulty variant: a month is taken to be 30 days
scheduleTask_ThirtyDays(t, nextRun) ==
  IF t.executionType = "scheduled" /\ t.scheduleTime.present THEN t.scheduleTime
  ELSE IF t.executionType # "recurring" THEN Absent(nextRun)
  ELSE CASE t.recurringPattern = Present("daily") -> Present(setDate(nextRun, nextRun.d + 1))
         [] t.recurringPattern = Present("weekly") -> Present(setDate(nextRun, nextRun.d + 7))
         [] t.recurringPattern = Present("monthly") -> Present(setDate(nextRun, nextRun.d + 30))
         [] OTHER -> Absent(nextRun)

\* scheduleTask(task), nextRun being the new Date() of line 174
scheduleTask(t, nextRun) ==
  IF t.executionType = "scheduled" /\ t.scheduleTime.present THEN t.scheduleTime
  ELSE IF t.executionType # "recurring" THEN Absent(nextRun)
  ELSE CASE t.recurringPattern = Present("daily") -> Present(setDate(nextRun, nextRun.d + 1))
         [] t.recurringPattern = Present("weekly") -> Present(setDate(nextRun, nextRun.d + 7))
         [] t.recurringPattern = Present("monthly") -> Present(setMonth(nextRun, nextRun.m + 1))
         [] OTHER -> Absent(nextRun)

\* the dates tried: the first day and the last days of every month of a common
\* year and of a leap year, at the first and at the last millisecond of the day
StDates ==
  {Date(y, m, d, ms) : y \in {2023, 2024}, m \in 0..11, d \in {1, 25, 28, 29, 30, 31},
                       ms \in {0, DayMs - 1}}
  \cap {date \in [y : {2023, 2024}, m : 0..11, d : 1..31, ms : {0, DayMs - 1}] :
          date.d <= DaysIn(date.y, date.m)}

StTasks ==
  [executionType : {"immediate", "scheduled", "recurring"},
   scheduleTime : {Absent(Date(2023, 0, 1, 0)), Present(Date(2023, 5, 15, 0)),
                   Present(Date(2025, 5, 15, 0))},
   recurringPattern : {Absent(""), Present("daily"), Present("weekly"),
                       Present("monthly"), Present("custom")}]

StIdle ==
  /\ stPc = "idle"
  /\ stResult = Absent(stNow)

StInit ==
  /\ stNow \in StDates
  /\ stTask \in StTasks
  /\ StIdle

StParked ==
  /\ stNow = Date(2023, 0, 1, 0)
  /\ stTask = [executionType |-> "immediate", scheduleTime |-> Absent(stNow),
               recurringPattern |-> Absent("")]
  /\ StIdle

\* one call of scheduleTask
ScheduleTask ==
  /\ stPc = "idle"
  /\ stResult' = scheduleTask(stTask, stNow)
  /\ stPc' = "done"
  /\ UNCHANGED <<stTask, stNow, notSt>>

(***************************************************************************)
(* Performance Advisor: AdvancedProcessingService.getOptimalScheduleTime   *)
(***************************************************************************)
\* the delay of the fallback, new Date(Date.now() + 60000)
DefaultDaysOld == 30
FallbackDelayMs == 60000

HourMs == DayMs \div 24

\* Date.prototype.getHours
getHours(t) == t.ms \div HourMs

\* the instant of hour h of day d
AtHour(d, h) == Time(d, h * HourMs + 30 * 60000)

\* setHours(h), setMinutes(0), setSeconds(0): the milliseconds stay
SetHourSharp(t, h) == Time(t.d, h * HourMs + (t.ms % 1000))

RECURSIVE Sum(_)
\* times.reduce((a, b) => a + b, 0)
Sum(times) == IF times = <<>> THEN 0 ELSE Head(times) + Sum(Tail(times))

\* faulty variant: the average is truncated
avgHour_Truncated(times) == Sum(times) \div Len(times)

\* Math.round(sum / times.length): the nearest integer, a half rounded up
avgHour(times) == (2 * Sum(times) + Len(times)) \div (2 * Len(times))

\* executions.filter(e => e.status === 'success')
successfulExec(executions) == SelectSeq(executions, LAMBDA e : e.status = "success")

\* successfulExec.map(e => e.executedAt.getHours())
HoursOf(executions) == [i \in 1..Len(executions) |-> getHours(executions[i].executedAt)]

\* getOptimalScheduleTime from the resolution of db.getTaskExecutions on, the
\* clock showing now1 at new Date() / Date.now() and now2 at the comparison
getOptimalScheduleTime(executions, now1, now2) ==
  IF Len(executions) = 0 THEN PlusMs(now1, FallbackDelayMs)
  ELSE IF Len(successfulExec(executions)) > 0
    THEN LET optimalTime == SetHourSharp(now1, avgHour(HoursOf(successfulExec(executions))))
         IN IF ~TimeLE(now2, optimalTime)
              THEN Time(optimalTime.d + 1, optimalTime.ms)
              ELSE optimalTime
  ELSE PlusMs(now1, FallbackDelayMs)

\* the executions short histories are made of
OpExecutionChoices ==
  [status : {"success", "failed", "pending"},
   executedAt : {AtHour(39, 0), AtHour(39, 9), AtHour(39, 23)}]

OpExec(status, h) == [status |-> status, executedAt |-> AtHour(38, h)]

\* ten executions, six of them successful, at hours 9, 9, 10, 11, 9, 10
OpScenario ==
  <<OpExec("success", 9), OpExec("failed", 23), OpExec("success", 9),
    OpExec("success", 10), OpExec("failed", 22), OpExec("success", 11),
    OpExec("pending", 23), OpExec("success", 9), OpExec("failed", 21),
    OpExec("success", 10)>>

\* the times of the call: around the hours the averages fall on, and at both
\* ends of the day
OpClocks ==
  {Time(40, 0), Time(40, 5 * HourMs - 1), Time(40, 5 * HourMs), Time(40, 10 * HourMs),
   Time(40, 10 * HourMs + 999), Time(40, 16 * HourMs + 1000), Time(40, DayMs - 1)}

OpIdle ==
  /\ opNow2 = opClock
  /\ opPc = "idle"
  /\ opResult = opClock

OpInit ==
  /\ opExecutions \in SeqsUpTo(OpExecutionChoices, MaxHist) \cup {OpScenario}
  /\ opClock \in OpClocks
  /\ OpIdle

OpParked ==
  /\ opExecutions = <<>>
  /\ opClock = Time(40, 0)
  /\ OpIdle

\* getOptimalScheduleTime up to the await of db.getTaskExecutions
OptimalCall ==
  /\ opPc = "idle"
  /\ opPc' = "awaiting"
  /\ UNCHANGED <<opExecutions, opClock, opNow2, opResult, notOp>>

\* the rest of getOptimalScheduleTime; a millisecond may pass between the two
\* readings of the clock
OptimalReturn ==
  /\ opPc = "awaiting"
  /\ \E passed \in {0, 1} :
       /\ opNow2' = PlusMs(opClock, passed)
       /\ opResult' = getOptimalScheduleTime(opExecutions, opClock, opNow2')
  /\ opPc' = "done"
  /\ UNCHANGED <<opExecutions, opClock, notOp>>

(***************************************************************************)
(* Risk Analyzer: AdvancedProcessingService.predictFailure                 *)
(***************************************************************************)
\* executions.filter(e => e.status === 'failed').length
FailedCount(executions) == Len(SelectSeq(executions, LAMBDA e : e = "failed"))

\* faulty variant: a failure rate of exactly 30 counts as high
FailureRateHigh_AtLeast(executions) ==
  Len(executions) > 0 /\ FailedCount(executions) * 100 >= 30 * Len(executions)

\* lines 234-236: failed / length * 100 > 30, for a history that is not empty
FailureRateHigh(executions) ==
  Len(executions) > 0 /\ FailedCount(executions) * 100 > 30 * Len(executions)

\* lines 243-246: the source accounts that exist and are not active, counted
inactiveAccounts(sources, accts) ==
  Len(SelectSeq(SelectSeq(sources, LAMBDA id : accts[id] # "missing"),
                LAMBDA id : accts[id] # "active"))

\* lines 253-255: taskAge / (7 * 24 * 60 * 60 * 1000) > 4 && executions.length < 5
OldWithLowCount(age, executions) == ~TimeLE(age, Days(4 * 7)) /\ Len(executions) < 5

\* `${inactiveAccounts} source account(s) inactive`
InactiveFactor(n) == ToString(n) \o " source account(s) inactive"

\* a history of n executions, the first k of them failed
RkHistory(n, k) == [i \in 1..n |-> IF i <= k THEN "failed" ELSE "success"]

RkIdle ==
  /\ rkPc = "idle"
  /\ riskScore = 0
  /\ factors = <<>>
  /\ rkResult = [riskLevel |-> 0, factors |-> <<>>]

RkInit ==
  /\ rkExecutions \in SeqsUpTo({"success", "failed"}, MaxRiskHist)
                        \cup {RkHistory(10, 3), RkHistory(10, 4),
                              <<"failed", "pending", "pending", "pending">>}
  /\ rkSources \in SeqsUpTo(RetryAccountIds, 2)
  /\ rkAccounts \in [RetryAccountIds -> {"missing", "active", "inactive"}]
  /\ rkAge \in {Time(27, DayMs - 1), Time(28, 0), Time(28, 1)}
  /\ RkIdle

RkParked ==
  /\ rkExecutions = <<>>
  /\ rkSources = <<>>
  /\ rkAccounts = [id \in RetryAccountIds |-> "missing"]
  /\ rkAge = Time(0, 1)
  /\ RkIdle

\* predictFailure up to the await of db.getTaskExecutions
PredictCall ==
  /\ rkPc = "idle"
  /\ rkPc' = "executions"
  /\ UNCHANGED <<rkExecutions, rkSources, rkAccounts, rkAge, riskScore, factors, rkResult,
                 notRk>>

\* factor 1, up to the await of the accounts
PredictRate ==
  /\ rkPc = "executions"
  /\ IF FailureRateHigh(rkExecutions)
       THEN /\ factors' = Append(factors, "High historical failure rate")
            /\ riskScore' = riskScore + 40
       ELSE UNCHANGED <<factors, riskScore>>
  /\ rkPc' = "accounts"
  /\ UNCHANGED <<rkExecutions, rkSources, rkAccounts, rkAge, rkResult,
                 notRk>>

\* factors 2 and 3 and the return
PredictReturn ==
  /\ rkPc = "accounts"
  /\ LET n == inactiveAccounts(rkSources, rkAccounts)
         f2 == IF n > 0 THEN Append(factors, InactiveFactor(n)) ELSE factors
         s2 == IF n > 0 THEN riskScore + 30 ELSE riskScore
         old == OldWithLowCount(rkAge, rkExecutions)
     IN /\ factors' = IF old THEN Append(f2, "Old task with low execution count") ELSE f2
        /\ riskScore' = IF old THEN s2 + 20 ELSE s2
  /\ rkResult' = [riskLevel |-> Min(100, riskScore'), factors |-> factors']
  /\ rkPc' = "done"
  /\ UNCHANGED <<rkExecutions, rkSources, rkAccounts, rkAge,
                 notRk>>

(***************************************************************************)
(* Risk Analyzer: AdvancedProcessingService.analyzeErrors                  *)
(* An error message is a sequence of characters.                           *)
(***************************************************************************)
StrTimeout == <<"t", "i", "m", "e", "o", "u", "t">>
StrTimeoutCapital == <<"T", "i", "m", "e", "o", "u", "t">>
StrUnauthorized == <<"u", "n", "a", "u", "t", "h", "o", "r", "i", "z", "e", "d">>
Str401 == <<"4", "0", "1">>
StrRate == <<"r", "a", "t", "e">>
StrLimit == <<"l", "i", "m", "i", "t">>
StrRateLimit == StrRate \o <<" ">> \o StrLimit
StrTimeoutAnd401 == StrTimeout \o <<" ">> \o Str401
StrOther == <<"d", "i", "s", "k", " ", "f", "u", "l", "l">>

\* String.prototype.includes
includes(str, sub) ==
  \E i \in 0..(Len(str) - Len(sub)) : SubSeq(str, i + 1, i + Len(sub)) = sub

RECURSIVE JoinChars(_)
\* strs.join(' ')
JoinChars(strs) ==
  IF strs = <<>> THEN <<>>
  ELSE IF Len(strs) = 1 THEN strs[1]
  ELSE strs[1] \o <<" ">> \o JoinChars(Tail(strs))

\* failures.map(f => f.error || '').join(' ')
errorMessages(failures) ==
  JoinChars([i \in 1..Len(failures) |->
               IF failures[i].error.present THEN failures[i].error.val ELSE <<>>])

\* faulty variant: a failure rate of exactly 50 counts as high
HighFailureRate_AtLeast(failures, executions) ==
  Len(failures) * 100 >= 50 * Len(executions)

\* lines 176-178: failures.length / executions.length * 100 > 50
HighFailureRate(failures, executions) ==
  Len(failures) * 100 > 50 * Len(executions)

Suggestion(pattern, suggestion, severity) ==
  [pattern |-> pattern, suggestion |-> suggestion, severity |-> severity]

\* analyzeErrors from the resolution of db.getTaskExecutions on
analyzeErrors(executions) ==
  LET failures == SelectSeq(executions, LAMBDA e : e.status = "failed")
      text == errorMessages(failures)
  IN IF Len(executions) = 0 THEN <<>>
     ELSE IF Len(failures) = 0 THEN <<>>
     ELSE (IF HighFailureRate(failures, executions)
             THEN <<Suggestion("High failure rate",
                               "Review your authentication tokens and account permissions. Consider reconnecting your accounts.",
                               "high")>>
             ELSE <<>>)
          \o (IF includes(text, StrTimeout)
                THEN <<Suggestion("Timeout errors",
                                  "Your network connection may be unstable. Try increasing the execution timeout.",
                                  "medium")>>
                ELSE <<>>)
          \o (IF includes(text, StrUnauthorized) \/ includes(text, Str401)
                THEN <<Suggestion("Authentication errors",
                                  "Your access token may have expired. Please reconnect your account.",
                                  "high")>>
                ELSE <<>>)
          \o (IF includes(text, StrRateLimit)
                THEN <<Suggestion("Rate limiting",
                                  "You are hitting API rate limits. Consider spreading your tasks over more time.",
                                  "medium")>>
                ELSE <<>>)

\* the error fields tried
AeErrors ==
  {Absent(<<>>), Present(StrTimeout), Present(StrTimeoutCapital), Present(StrUnauthorized),
   Present(Str401), Present(StrRateLimit), Present(StrRate), Present(StrLimit),
   Present(StrTimeoutAnd401), Present(StrOther)}

AeIdle ==
  /\ aePc = "idle"
  /\ aeResult = <<>>

AeInit ==
  /\ aeExecutions \in
       SeqsUpTo([status : {"success", "failed", "pending"}, error : AeErrors], MaxErrHist)
  /\ AeIdle

AeParked ==
  /\ aeExecutions = <<>>
  /\ AeIdle

\* analyzeErrors up to the await of db.getTaskExecutions
AnalyzeCall ==
  /\ aePc = "idle"
  /\ aePc' = "awaiting"
  /\ UNCHANGED <<aeExecutions, aeResult, notAe>>

\* the rest of analyzeErrors
AnalyzeReturn ==
  /\ aePc = "awaiting"
  /\ aeResult' = analyzeErrors(aeExecutions)
  /\ aePc' = "done"
  /\ UNCHANGED <<aeExecutions, notAe>>

(***************************************************************************)
(* Performance Advisor: AdvancedProcessingService.generatePerformanceReport*)
(* The report depends on how many executions of each status there are, so  *)
(* a history is a bag of statuses.                                         *)
(***************************************************************************)
\* the history with the given numbers of executions
RpHistory(nSuccess, nFailed, nPending) ==
  LET count == [st \in {"success", "failed", "pending"} |->
                  CASE st = "success" -> nSuccess
                    [] st = "failed" -> nFailed
                    [] st = "pending" -> nPending]
  IN [st \in {x \in DOMAIN count : count[x] > 0} |-> count[st]]

\* (k / n * 100).toFixed(2) in hundredths of a percent: the nearest hundredth;
\* when k / n * 100 lies half way between two, the error of the floating-point
\* quotient decides, so both are possible
toFixed2(k, n) ==
  LET q == (k * 10000) \div n
      r == (k * 10000) % n
  IN IF 2 * r < n THEN {q}
     ELSE IF 2 * r > n THEN {q + 1}
     ELSE {q, q + 1}

\* the digits of toFixed(2)
Fixed2String(h) ==
  ToString(h \div 100) \o "." \o ToString((h % 100) \div 10) \o ToString(h % 10)

\* lines 295-301, successRate being h hundredths: Number(successRate) === 100,
\* Number(successRate) > 80
Recommendation(h) ==
  IF h = 100 * 100 THEN "Task is performing perfectly!"
  ELSE IF h > 80 * 100 THEN "Consider investigating recent failures"
  ELSE "Immediate investigation recommended"

\* lines 279-284
NoDataReport ==
  [summary |-> "No execution history available", uptime |-> "N/A",
   averageExecutionTime |-> "N/A",
   recommendations |-> <<"Run this task to generate performance metrics">>]

\* lines 303-308, successRate being h hundredths
Report(executions, h) ==
  [summary |-> ToString(BagCardinality(executions)) \o " executions, "
                 \o Fixed2String(h) \o "% success rate",
   uptime |-> Fixed2String(h) \o "%",
   averageExecutionTime |-> "245ms",
   recommendations |-> <<Recommendation(h)>>]

\* the histories tried: short ones, and long ones whose success rate is within
\* a hundredth of a percent of 100 or of 80
RpHistories ==
  {RpHistory(ok, ko, pend) : ok \in 0..MaxRepHist, ko \in 0..MaxRepHist, pend \in {0, 1}}
  \cup {RpHistory(25000, 0, 0), RpHistory(24999, 1, 0), RpHistory(24998, 2, 0),
        RpHistory(20002, 4998, 0), RpHistory(20001, 4999, 0), RpHistory(20000, 5000, 0)}

RpIdle ==
  /\ rpPc = "idle"
  /\ rpResult = NoDataReport

RpInit ==
  /\ rpExecutions \in RpHistories
  /\ RpIdle

RpParked ==
  /\ rpExecutions = EmptyBag
  /\ RpIdle

\* generatePerformanceReport up to the await of db.getTaskExecutions
ReportCall ==
  /\ rpPc = "idle"
  /\ rpPc' = "awaiting"
  /\ UNCHANGED <<rpExecutions, rpResult, notRp>>

\* the rest of generatePerformanceReport
ReportReturn ==
  /\ rpPc = "awaiting"
  /\ IF BagCardinality(rpExecutions) = 0
       THEN rpResult' = NoDataReport
       ELSE \E h \in toFixed2(CopiesIn("success", rpExecutions), BagCardinality(rpExecutions)) :
              rpResult' = Report(rpExecutions, h)
  /\ rpPc' = "done"
  /\ UNCHANGED <<rpExecutions, notRp>>

(***************************************************************************)
(* InMemoryDB tasks and executions, MaintenanceService                     *)
(***************************************************************************)
DemoUser == "demo-user"
MemUserIds == {DemoUser, "other"}
MemTaskStatuses == {"active", "paused"}
MemExecStatuses == {"success", "failed"}

\* Array.from(this.tasks.values()).filter(t => t.userId === userId)
getUserTasks(ts, userId) == SelectSeq(ts, LAMBDA t : t.userId = userId)

\* this.tasks.set(id, { ...task, ...updates }), or nothing when the id is unknown
updateTask(ts, id, status) ==
  [i \in 1..Len(ts) |-> IF ts[i].id = id THEN [ts[i] EXCEPT !.status = status] ELSE ts[i]]

\* this.tasks.delete(id)
deleteTask(ts, id) == SelectSeq(ts, LAMBDA t : t.id # id)

\* faulty variant: the record is stored under its task's id and replaces the task's last one
createExecution_PerTask(execs, rec) ==
  Append(SelectSeq(execs, LAMBDA e : e.taskId # rec.taskId), rec)

\* this.executions.set(newExecution.id, newExecution), the id being a fresh one
createExecution(execs, rec) == Append(execs, rec)

\* Array.from(this.executions.values()).filter(e => e.taskId === taskId)
getTaskExecutions(execs, taskId) == SelectSeq(execs, LAMBDA e : e.taskId = taskId)

\* executions.filter(e => e.executedAt < cutoffDate)
toDelete(execs, cutoff) == SelectSeq(execs, LAMBDA e : e.executedAt < cutoff)

MtIdle ==
  /\ mtPc = "idle"
  /\ mtCaller = "cleanupOldExecutions"
  /\ cutoffDate = 0
  /\ mtTasks = <<>>
  /\ deletedCount = 0
  /\ mtResult = 0

MmInit ==
  /\ memUsers \in SUBSET {DemoUser}
  /\ memTasks = <<>>
  /\ memExecutions = <<>>
  /\ created = <<>>
  /\ nextId = 1
  /\ memToday = DefaultDaysOld + 1
  /\ MtIdle

MmParked ==
  /\ memUsers = {}
  /\ memTasks = <<>>
  /\ memExecutions = <<>>
  /\ created = <<>>
  /\ nextId = 1
  /\ memToday = 0
  /\ MtIdle

\* db.createTask
MemCreateTask ==
  /\ nextId <= MaxIds
  /\ \E userId \in MemUserIds, status \in MemTaskStatuses :
       memTasks' = Append(memTasks, [id |-> nextId, userId |-> userId, status |-> status])
  /\ nextId' = nextId + 1
  /\ UNCHANGED <<memUsers, memExecutions, created, memToday, mtPc, mtCaller, cutoffDate,
                 mtTasks, deletedCount, mtResult, notMm>>

\* db.updateTask
MemUpdateTask ==
  /\ \E id \in 1..MaxIds, status \in MemTaskStatuses :
       memTasks' = updateTask(memTasks, id, status)
  /\ UNCHANGED <<memUsers, memExecutions, created, nextId, memToday, mtPc, mtCaller, cutoffDate,
                 mtTasks, deletedCount, mtResult, notMm>>

\* db.deleteTask
MemDeleteTask ==
  /\ \E id \in 1..MaxIds : memTasks' = deleteTask(memTasks, id)
  /\ UNCHANGED <<memUsers, memExecutions, created, nextId, memToday, mtPc, mtCaller, cutoffDate,
                 mtTasks, deletedCount, mtResult, notMm>>

\* db.createExecution for a run of a stored task
MemCreateExecution ==
  /\ nextId <= MaxIds
  /\ \E i \in 1..Len(memTasks), status \in MemExecStatuses, executedAt \in {0, memToday} :
       LET rec == [id |-> nextId, taskId |-> memTasks[i].id, status |-> status,
                   executedAt |-> executedAt]
       IN  /\ memExecutions' = createExecution(memExecutions, rec)
           /\ created' = Append(created, rec)
  /\ nextId' = nextId + 1
  /\ UNCHANGED <<memUsers, memTasks, memToday, mtPc, mtCaller, cutoffDate,
                 mtTasks, deletedCount, mtResult, notMm>>

\* cleanupOldExecutions(), called directly or first thing by runFullMaintenance,
\* up to the await of db.getUser in ensureUserExists
MaintenanceCall ==
  /\ mtPc = "idle"
  /\ \E caller \in {"cleanupOldExecutions", "runFullMaintenance"} :
       /\ mtCaller' = caller
       /\ cutoffDate' = memToday - DefaultDaysOld
  /\ deletedCount' = 0
  /\ mtPc' = "ensureUser"
  /\ UNCHANGED <<memUsers, memTasks, memExecutions, created, nextId, memToday,
                 mtTasks, mtResult, notMm>>

\* ensureUserExists: db.getUser has resolved; db.createUser when there is no such user
EnsureUserSettle ==
  /\ mtPc = "ensureUser"
  /\ memUsers' = memUsers \cup {DemoUser}
  /\ mtPc' = "getUserTasks"
  /\ UNCHANGED <<memTasks, memExecutions, created, nextId, memToday, mtCaller, cutoffDate,
                 mtTasks, deletedCount, mtResult, notMm>>

\* the end of cleanupOldExecutions: return deletedCount
CleanupReturn(n) ==
  /\ mtResult' = n
  /\ mtPc' = IF mtCaller = "runFullMaintenance" THEN "rest" ELSE "idle"

\* db.getUserTasks(user.id) has resolved
GetUserTasksSettle ==
  /\ mtPc = "getUserTasks"
  /\ mtTasks' = getUserTasks(memTasks, DemoUser)
  /\ IF getUserTasks(memTasks, DemoUser) = <<>>
       THEN CleanupReturn(deletedCount)
       ELSE /\ mtPc' = "scan"
            /\ UNCHANGED mtResult
  /\ UNCHANGED <<memUsers, memTasks, memExecutions, created, nextId, memToday, mtCaller,
                 cutoffDate, deletedCount, notMm>>

\* db.getTaskExecutions(task.id) has resolved for the next task of the snapshot:
\* the old executions are counted
ScanSettle ==
  /\ mtPc = "scan"
  /\ LET executions == getTaskExecutions(memExecutions, Head(mtTasks).id)
         n == deletedCount + Len(toDelete(executions, cutoffDate))
     IN  /\ deletedCount' = n
         /\ mtTasks' = Tail(mtTasks)
         /\ IF Tail(mtTasks) = <<>>
              THEN CleanupReturn(n)
              ELSE UNCHANGED <<mtPc, mtResult>>
  /\ UNCHANGED <<memUsers, memTasks, memExecutions, created, nextId, memToday, mtCaller,
                 cutoffDate, notMm>>

\* the rest of runFullMaintenance: rebuildStatistics, compressData, refreshCache,
\* optimizeIndexes, checkExpiredTokens, healthCheck, which read the store and log
MaintenanceRest ==
  /\ mtPc = "rest"
  /\ mtPc' = "idle"
  /\ UNCHANGED <<memUsers, memTasks, memExecutions, created, nextId, memToday, mtCaller,
                 cutoffDate, mtTasks, deletedCount, mtResult, notMm>>

(***************************************************************************)
(* POST /api/accounts, getOrCreateAccount, InMemoryDB accounts             *)
(***************************************************************************)
AcRequests == 1..MaxRequests
AcUserIds == {"u1"}
AcPlatformIds == {"twitter", "facebook"}
AcAccountIds == {"a1"}
NoAccount == [id |-> 0, userId |-> "", platformId |-> "", accountId |-> ""]
AcNewRequest ==
  [pc |-> "new", userId |-> "", platformId |-> "", accountId |-> "",
   user |-> FALSE, accounts |-> <<>>, account |-> NoAccount, status |-> 0]

\* Array.from(this.accounts.values()).filter(a => a.userId === userId)
getUserAccounts(accs, userId) == SelectSeq(accs, LAMBDA a : a.userId = userId)

\* accounts.find(a => a.platformId === platformId && a.accountId === accountId)
findExisting(accs, platformId, accountId) ==
  LET found == SelectSeq(accs, LAMBDA a : a.platformId = platformId /\ a.accountId = accountId)
  IN  IF found = <<>> THEN NoAccount ELSE Head(found)

\* this.accounts.set(newAccount.id, newAccount), the id being a fresh one
createAccount(accs, rec) == Append(accs, rec)

AcIdle ==
  /\ acUsers = {}
  /\ acAccounts = <<>>
  /\ acNextId = 1
  /\ acReq = [r \in AcRequests |-> AcNewRequest]

AcInit == AcIdle

AcParked == AcIdle

\* POST once request.json() has resolved: the payload is parsed; an invalid one
\* is answered 400, else ensureUserExists runs up to its await of db.getUser
PostParse(r) ==
  /\ acReq[r].pc = "new"
  /\ \E valid \in BOOLEAN, userId \in AcUserIds, platformId \in AcPlatformIds,
        accountId \in AcAccountIds :
       acReq' = [acReq EXCEPT ![r] =
                   IF valid
                     THEN [@ EXCEPT !.pc = "getUser", !.userId = userId,
                                    !.platformId = platformId, !.accountId = accountId,
                                    !.user = userId \in acUsers]
                     ELSE [@ EXCEPT !.pc = "done", !.status = 400]]
  /\ UNCHANGED <<acUsers, acAccounts, acNextId, notAc>>

\* ensureUserExists after db.getUser: the user is returned, or db.createUser stores it
GetUserSettle(r) ==
  /\ acReq[r].pc = "getUser"
  /\ IF acReq[r].user
       THEN /\ acReq' = [acReq EXCEPT ![r].pc = "ensured"]
            /\ UNCHANGED acUsers
       ELSE /\ acUsers' = acUsers \cup {acReq[r].userId}
            /\ acReq' = [acReq EXCEPT ![r].pc = "createUser"]
  /\ UNCHANGED <<acAccounts, acNextId, notAc>>

\* db.createUser has resolved: ensureUserExists returns
CreateUserSettle(r) ==
  /\ acReq[r].pc = "createUser"
  /\ acReq' = [acReq EXCEPT ![r].pc = "ensured"]
  /\ UNCHANGED <<acUsers, acAccounts, acNextId, notAc>>

\* POST after ensureUserExists: getOrCreateAccount up to its await of
\* db.getUserAccounts, which reads the store
GetOrCreateCall(r) ==
  /\ acReq[r].pc = "ensured"
  /\ acReq' = [acReq EXCEPT ![r].pc = "getUserAccounts",
                            ![r].accounts = getUserAccounts(acAccounts, acReq[r].userId)]
  /\ UNCHANGED <<acUsers, acAccounts, acNextId, notAc>>

\* getOrCreateAccount after db.getUserAccounts: the existing account is
\* returned, or db.createAccount stores a new one
GetUserAccountsSettle(r) ==
  /\ acReq[r].pc = "getUserAccounts"
  /\ LET existing == findExisting(acReq[r].accounts, acReq[r].platformId, acReq[r].accountId)
         newAccount == [id |-> acNextId, userId |-> acReq[r].userId,
                        platformId |-> acReq[r].platformId, accountId |-> acReq[r].accountId]
     IN  IF existing # NoAccount
           THEN /\ acReq' = [acReq EXCEPT ![r].pc = "account", ![r].account = existing]
                /\ UNCHANGED <<acAccounts, acNextId>>
           ELSE /\ acAccounts' = createAccount(acAccounts, newAccount)
                /\ acNextId' = acNextId + 1
                /\ acReq' = [acReq EXCEPT ![r].pc = "account", ![r].account = newAccount]
  /\ UNCHANGED <<acUsers, notAc>>

\* POST after getOrCreateAccount: db.updateAccount (token and names), db.getAccount,
\* and the 201 response
PostRespond(r) ==
  /\ acReq[r].pc = "account"
  /\ acReq' = [acReq EXCEPT ![r].pc = "done", ![r].status = 201]
  /\ UNCHANGED <<acUsers, acAccounts, acNextId, notAc>>

(***************************************************************************)
(* Polls of the due set, pauses, and the runs of the due tasks             *)
(***************************************************************************)
ScNow == Time(40, 0)

\* the tasks a store may hold: due at every poll while active ('immediate') or
\* until they have run ('recurring' daily)
ScTaskShapes ==
  [status : {"active", "paused"},
   executionType : {"immediate", "recurring"},
   scheduleTime : {Absent(ScNow)},
   recurringPattern : {Present("daily")},
   lastExecuted : {Absent(ScNow), Present(Ago(ScNow, 1, 1))}]

WithId(t, id) ==
  [id |-> id, status |-> t.status, executionType |-> t.executionType,
   scheduleTime |-> t.scheduleTime, recurringPattern |-> t.recurringPattern,
   lastExecuted |-> t.lastExecuted]

ScStores ==
  UNION {{[i \in 1..n |-> WithId(f[i], i)] : f \in [1..n -> ScTaskShapes]} : n \in 1..MaxScTasks}

\* faulty variant: the snapshot holds the tasks of every status
getActiveTasks_All(ts) == ts

\* Array.from(this.tasks.values()).filter(t => t.status === 'active')
getActiveTasks(ts) == SelectSeq(ts, LAMBDA t : t.status = "active")

\* the stored status of the task with this id
StoredStatus(id) == scStore[id].status

Ids(ts) == {ts[i].id : i \in 1..Len(ts)}

ScIdle ==
  /\ scPc = "idle"
  /\ scSnapshot = <<>>
  /\ scDue = <<>>
  /\ polls = 0
  /\ selected = {}
  /\ started = <<>>
  /\ running = {}

ScInit ==
  /\ scStore \in ScStores
  /\ pausedAt = [id \in 1..Len(scStore) |->
                   IF scStore[id].status = "paused" THEN Present(0) ELSE Absent(0)]
  /\ ScIdle

ScParked ==
  /\ scStore = <<>>
  /\ pausedAt = <<>>
  /\ ScIdle

\* getTasksDueForExecution up to the await of db.getActiveTasks(), which reads the store
PollCall ==
  /\ scPc = "idle"
  /\ polls < MaxPolls
  /\ scSnapshot' = getActiveTasks(scStore)
  /\ polls' = polls + 1
  /\ scPc' = "fetched"
  /\ UNCHANGED <<scStore, scDue, selected, started, pausedAt, running, notSc>>

\* getTasksDueForExecution from now = new Date() to its return: the due set is
\* filtered from the snapshot
PollReturn ==
  /\ scPc = "fetched"
  /\ scDue' = SelectSeq(scSnapshot, LAMBDA t : isDue(t, ScNow))
  /\ selected' = Ids(scDue')
  /\ scPc' = IF scDue' = <<>> THEN "idle" ELSE "executing"
  /\ UNCHANGED <<scStore, scSnapshot, polls, started, pausedAt, running, notSc>>

\* the scheduler runs the next task of the due set: executeTask(task, accounts),
\* which validates the accounts only; a run that gets that far stores lastExecuted
ExecuteDue ==
  /\ scPc = "executing"
  /\ LET t == Head(scDue)
     IN  /\ started' = Append(started, [id |-> t.id, poll |-> polls,
                                        status |-> StoredStatus(t.id)])
         /\ \E wrote \in BOOLEAN :
              scStore' = IF wrote
                           THEN [scStore EXCEPT ![t.id].lastExecuted = Present(ScNow)]
                           ELSE scStore
  /\ scDue' = Tail(scDue)
  /\ scPc' = IF Tail(scDue) = <<>> THEN "idle" ELSE "executing"
  /\ UNCHANGED <<scSnapshot, polls, selected, pausedAt, running, notSc>>

\* the scheduler takes the next task of the due set and calls
\* executeTask(task, accounts), which runs up to its first await; the scheduler
\* does not wait for the run to return
RunStart ==
  /\ scPc = "executing"
  /\ LET t == Head(scDue)
     IN  /\ started' = Append(started, [id |-> t.id, poll |-> polls,
                                        status |-> StoredStatus(t.id)])
         /\ running' = running \cup {[id |-> t.id, poll |-> polls]}
  /\ scDue' = Tail(scDue)
  /\ scPc' = IF Tail(scDue) = <<>> THEN "idle" ELSE "executing"
  /\ UNCHANGED <<scStore, scSnapshot, polls, selected, pausedAt, notSc>>

\* a run comes to its end: one that got as far as line 83 stores lastExecuted,
\* one that threw before does not
RunReturn ==
  /\ \E r \in running :
       /\ running' = running \ {r}
       /\ \E wrote \in BOOLEAN :
            scStore' = IF wrote
                         THEN [scStore EXCEPT ![r.id].lastExecuted = Present(ScNow)]
                         ELSE scStore
  /\ UNCHANGED <<scPc, scSnapshot, scDue, polls, selected, started, pausedAt, notSc>>

\* db.updateTask(id, { status: 'paused' }) on an active task
PauseTask ==
  /\ \E id \in 1..Len(scStore) :
       /\ scStore[id].status = "active"
       /\ scStore' = [scStore EXCEPT ![id].status = "paused"]
       /\ pausedAt' = [pausedAt EXCEPT ![id] = Present(polls)]
  /\ UNCHANGED <<scPc, scSnapshot, scDue, polls, selected, started, running, notSc>>

(***************************************************************************)
(* AdvancedProcessingService cache                                         *)
(***************************************************************************)
\* private cacheTimeout = 5 * 60 * 1000
cacheTimeout == 5 * 60 * 1000

CacheKeys == {"k1", "k2"}
CacheValues == {"v1", "v2"}
NoEntry == Absent([data |-> NullValue, timestamp |-> 0])

\* faulty variant: an entry is still served when exactly cacheTimeout old
getCached_Inclusive(c, key, t) ==
  IF c[key].present /\ t - c[key].val.timestamp <= cacheTimeout
    THEN c[key].val.data
    ELSE NullValue

\* getCached(key): the data of a stored entry younger than cacheTimeout, else null
getCached(c, key, t) ==
  IF c[key].present /\ t - c[key].val.timestamp < cacheTimeout
    THEN c[key].val.data
    ELSE NullValue

\* this.cache.set(key, { data, timestamp: Date.now() })
setCached(c, key, data, t) == [c EXCEPT ![key] = Present([data |-> data, timestamp |-> t])]

\* this.cache.clear()
clearCache(c) == [k \in DOMAIN c |-> NoEntry]

ChIdle ==
  /\ cache = [k \in CacheKeys |-> NoEntry]
  /\ lastSet = [k \in CacheKeys |-> NoEntry]
  /\ chNow = 0
  /\ chTicks = 0
  /\ chKey = "k1"
  /\ chResult = NullValue
  /\ chFresh = FALSE

ChInit == ChIdle

ChParked == ChIdle

\* a call of setCached
SetCached ==
  /\ \E key \in CacheKeys, data \in CacheValues :
       /\ cache' = setCached(cache, key, data, chNow)
       /\ lastSet' = [lastSet EXCEPT ![key] = Present([data |-> data, timestamp |-> chNow])]
  /\ chFresh' = FALSE
  /\ UNCHANGED <<chNow, chTicks, chKey, chResult, notCh>>

\* a call of getCached
GetCached ==
  /\ \E key \in CacheKeys :
       /\ chKey' = key
       /\ chResult' = getCached(cache, key, chNow)
  /\ chFresh' = TRUE
  /\ UNCHANGED <<cache, lastSet, chNow, chTicks, notCh>>

\* a call of clearCache
ClearCache ==
  /\ cache' = clearCache(cache)
  /\ lastSet' = [k \in CacheKeys |-> NoEntry]
  /\ chFresh' = FALSE
  /\ UNCHANGED <<chNow, chTicks, chKey, chResult, notCh>>

\* time passes: a millisecond, or a millisecond less than cacheTimeout
CacheTick ==
  /\ chTicks < MaxCacheTicks
  /\ \E d \in {1, cacheTimeout - 1} : chNow' = chNow + d
  /\ chTicks' = chTicks + 1
  /\ chFresh' = FALSE
  /\ UNCHANGED <<cache, lastSet, chKey, chResult, notCh>>

(***************************************************************************)
(* Task updates: db.updateTask of both adapters, called by the executor    *)
(* and by a client, directly or through PATCH /api/tasks/[id]              *)
(***************************************************************************)
\* the instant the executor's new Date() shows, later than every stored one
ExecTime == Present(9)

UtCallers == {"executor", "client"}

\* the stored tasks at the start
UtRows ==
  [status : {"active", "paused"},
   scheduleTime : {Absent(0), Present(5)},
   lastExecuted : {Absent(0), Present(1)}]

\* new Date(isoString)
NewDate(iso) == CASE iso = "T7" -> 7 [] iso = "T8" -> 8

\* the JSON bodies a client sends to PATCH
UtBodies ==
  {[status |-> s] : s \in {"active", "paused", "bogus"}}
    \cup {[scheduleTime |-> iso] : iso \in {"T7", "T8"}}
    \cup {[status |-> "paused", scheduleTime |-> "T7"]}

\* the updates a client passes to db.updateTask itself
UtDirectUpdates == {[status |-> s] : s \in {"active", "paused"}}

UtRequests ==
  {[via |-> "route", body |-> b] : b \in UtBodies}
    \cup {[via |-> "db", body |-> u] : u \in UtDirectUpdates}

\* taskUpdateSchema.safeParse(raw).success: every field optional, status one of four
taskUpdateSchemaOk(body) ==
  "status" \in DOMAIN body => body.status \in {"active", "paused", "completed", "error"}

\* PATCH's argument { ...body, scheduleTime: body.scheduleTime ? new Date(..) : undefined }:
\* the key scheduleTime is always there, undefined when the body has none
PatchUpdates(body) ==
  [f \in DOMAIN body \cup {"scheduleTime"} |->
     IF f = "scheduleTime"
       THEN (IF f \in DOMAIN body THEN Present(NewDate(body[f])) ELSE Absent(0))
       ELSE body[f]]

\* { ...existing, ...updates }: every key of updates replaces the stored field,
\* a key whose value is undefined included
MergeUpdates(existing, updates) ==
  [f \in DOMAIN existing |-> IF f \in DOMAIN updates THEN updates[f] ELSE existing[f]]

\* the updates each caller passes to db.updateTask
UpdatesOf(c) ==
  IF c = "executor" THEN [lastExecuted |-> ExecTime]
  ELSE IF utReq.via = "route" THEN PatchUpdates(utReq.body)
  ELSE utReq.body

UtIdle ==
  /\ utRow0 = utRow
  /\ utPc = [c \in UtCallers |-> "idle"]
  /\ utExisting = [c \in UtCallers |-> utRow]

UtInit ==
  /\ utAdapter \in {"memory", "postgres"}
  /\ utRow \in UtRows
  /\ utReq \in UtRequests
  /\ UtIdle

UtParked ==
  /\ utAdapter = "memory"
  /\ utRow = [status |-> "active", scheduleTime |-> Absent(0), lastExecuted |-> Absent(0)]
  /\ utReq = [via |-> "db", body |-> [status |-> "paused"]]
  /\ UtIdle

\* db.updateTask(id, updates) up to its first await: InMemoryDB merges and stores
\* at once, PostgresDB goes on to read the row
UpdateTaskCall(c) ==
  IF utAdapter = "memory"
    THEN /\ utRow' = MergeUpdates(utRow, UpdatesOf(c))
         /\ utPc' = [utPc EXCEPT ![c] = "done"]
    ELSE /\ utPc' = [utPc EXCEPT ![c] = "selecting"]
         /\ UNCHANGED utRow

\* executeTask's db.updateTask(task.id, { lastExecuted: new Date() })
ExecutorUpdate ==
  /\ utPc["executor"] = "idle"
  /\ UpdateTaskCall("executor")
  /\ UNCHANGED <<utAdapter, utRow0, utReq, utExisting, notUt>>

\* a client's db.updateTask(id, { status })
DirectUpdate ==
  /\ utPc["client"] = "idle"
  /\ utReq.via = "db"
  /\ UpdateTaskCall("client")
  /\ UNCHANGED <<utAdapter, utRow0, utReq, utExisting, notUt>>

\* PATCH from the parsed body on: 400 for a body the schema rejects, else db.updateTask
PatchRequest ==
  /\ utPc["client"] = "idle"
  /\ utReq.via = "route"
  /\ IF taskUpdateSchemaOk(utReq.body)
       THEN UpdateTaskCall("client")
       ELSE /\ utPc' = [utPc EXCEPT !["client"] = "rejected"]
            /\ UNCHANGED utRow
  /\ UNCHANGED <<utAdapter, utRow0, utReq, utExisting, notUt>>

\* PostgresDB.updateTask: existing = await this.getTask(id), the SELECT reading the row
PgSelect(c) ==
  /\ utPc[c] = "selecting"
  /\ utExisting' = [utExisting EXCEPT ![c] = utRow]
  /\ utPc' = [utPc EXCEPT ![c] = "updating"]
  /\ UNCHANGED <<utAdapter, utRow, utRow0, utReq, notUt>>

\* PostgresDB.updateTask: the UPDATE writing every column of { ...existing, ...updates }
PgUpdate(c) ==
  /\ utPc[c] = "updating"
  /\ utRow' = MergeUpdates(utExisting[c], UpdatesOf(c))
  /\ utPc' = [utPc EXCEPT ![c] = "done"]
  /\ UNCHANGED <<utAdapter, utRow0, utReq, utExisting, notUt>>

FnParkedBut(x) ==
  /\ IF x = "tc" THEN TRUE ELSE TcParked
  /\ IF x = "du" THEN TRUE ELSE DuParked
  /\ IF x = "st" THEN TRUE ELSE StParked
  /\ IF x = "op" THEN TRUE ELSE OpParked
  /\ IF x = "rk" THEN TRUE ELSE RkParked
  /\ IF x = "ae" THEN TRUE ELSE AeParked
  /\ IF x = "rp" THEN TRUE ELSE RpParked
  /\ IF x = "mm" THEN TRUE ELSE MmParked
  /\ IF x = "ac" THEN TRUE ELSE AcParked
  /\ IF x = "sc" THEN TRUE ELSE ScParked
  /\ IF x = "ch" THEN TRUE ELSE ChParked
  /\ IF x = "ut" THEN TRUE ELSE UtParked
FnParked == FnParkedBut("")
CoreParked == RcParked /\ PbParked /\ EngParked

(***************************************************************************)
(* Specifications                                                          *)
(***************************************************************************)
InitRetry == RcInit /\ PbParked /\ EngParked /\ FnParked
NextRetry == RcStart \/ RcSettle \/ RcWake
SpecRetry == InitRetry /\ [][NextRetry]_vars

InitBatch == PbInit /\ RcParked /\ EngParked /\ FnParked
NextBatch == PbStart \/ PbSettle \/ PbAdvance
SpecBatch == InitBatch /\ [][NextBatch]_vars

\* processBatch with a processor whose call can throw
InitBatchSync == PbInitSync /\ RcParked /\ EngParked /\ FnParked
SpecBatchSync == InitBatchSync /\ [][NextBatch]_vars

\* direct runs of executeTask
InitExec ==
  /\ task \in [sourceAccounts : SeqsUpTo(AccountIds, 1),
               targetAccounts : SeqsUpTo(AccountIds, MaxTgt)]
  /\ accounts \in SUBSET AccountIds
  /\ now = 1
  /\ maxRetries = DefaultEngineRetries
  /\ ExIdle
  /\ RtIdle
  /\ RcParked
  /\ PbParked
  /\ FnParked
NextExec == ExecuteTask \/ InitSettle \/ DistSettle \/ UpdateSettle
SpecExec == InitExec /\ [][NextExec]_vars

\* one call of the engine's executeWithRetry
InitEngineRetry ==
  /\ task \in [sourceAccounts : SeqsUpTo(RetryAccountIds, 1),
               targetAccounts : SeqsUpTo(RetryAccountIds, RtMaxTgt)]
  /\ accounts \in SUBSET RetryAccountIds
  /\ now = 1
  /\ maxRetries \in 0..MaxEngineRetries
  /\ ExIdle
  /\ RtIdle
  /\ RcParked
  /\ PbParked
  /\ FnParked
NextEngineRetry ==
  RetryStart \/ RetryOnResult \/ RetryWake \/ InitSettle \/ DistSettle \/ UpdateSettle
SpecEngineRetry == InitEngineRetry /\ [][NextEngineRetry]_vars

(***************************************************************************)
(* Properties                                                              *)
(***************************************************************************)
CountCode(errs, code) == Len(SelectSeq(errs, LAMBDA e : e.code = code))

AllFailed(log) == \A i \in 1..Len(log) : ~log[i].ok

\* C1: when executeTask distributes to N >= 2 resolved targets and exactly k of
\* the publish results are unsuccessful, 0 < k < N, with no other failure in the
\* run, the returned execution is 'partial' with itemsFailed = k and exactly k
\* PUBLISH_ERROR errors.
C1_PartialWhenSomePublishesFail ==
  LET n == Len(distResults)
      k == Len(FailedResults(distResults))
  IN (/\ pc = "returned"
      /\ n = Len(destAccounts)
      /\ n >= 2
      /\ \A i, j \in 1..n : destAccounts[i] = destAccounts[j] => i = j
      /\ 0 < k
      /\ k < n
      /\ \A i \in 1..Len(execution.errors) : execution.errors[i].code = "PUBLISH_ERROR")
     => /\ execution.status = "partial"
        /\ execution.itemsFailed = k
        /\ CountCode(execution.errors, "PUBLISH_ERROR") = k

NoAccountResolves ==
  \/ Len(Resolve(task.sourceAccounts, accounts)) = 0
  \/ Len(Resolve(task.targetAccounts, accounts)) = 0

\* C2: when no source account id (or no target account id) of the task resolves,
\* executeTask returns a 'failed' execution with itemsProcessed = 0 and exactly one
\* task-level error (platform 'unknown', empty accountId), and the run calls
\* neither initializeClient nor distributeContent.
C2_FailedWhenNoAccountResolves ==
  (pc = "returned" /\ NoAccountResolves)
  => /\ execution.status = "failed"
     /\ execution.itemsProcessed = 0
     /\ Len(execution.errors) = 1
     /\ execution.errors[1].platform = "unknown"
     /\ execution.errors[1].accountId = EmptyAccountId
     /\ initCalls = <<>>
     /\ distCalls = <<>>

StatusMatchesCounts(ex) ==
  /\ (ex.status = "success") <=> (ex.itemsFailed = 0)
  /\ (ex.status = "failed") <=> (ex.itemsFailed = ex.itemsProcessed /\ ex.itemsProcessed > 0)
  /\ (ex.status = "partial") <=>
       (ex.itemsFailed # 0 /\ ~(ex.itemsFailed = ex.itemsProcessed /\ ex.itemsProcessed > 0))

\* C3: every TaskExecution returned by executeTask or by the engine's
\* executeWithRetry, the synthetic results included, has status 'success' iff
\* itemsFailed = 0, 'failed' iff itemsFailed = itemsProcessed > 0, and 'partial'
\* in every other case.
C3_StatusMatchesCounts ==
  /\ execution # NoExecution => StatusMatchesCounts(execution)
  /\ retResult # NoExecution => StatusMatchesCounts(retResult)

\* C4: every run of a task by the executor adds exactly one Task Execution record
\* to the task's persisted execution history: getTaskExecutions(taskId) grows by
\* exactly one per run.
C4_OneRecordPerRun == Len(dbExecutions) = runs

\* C5: the engine's executeWithRetry runs executeTask again only while the
\* previous attempt is 'failed'; it returns at once, with no further attempt or
\* sleep, the first 'success' or 'partial' attempt; when every attempt is 'failed'
\* it returns the last attempt's result; it returns the synthetic UNKNOWN_ERROR
\* result only when no attempt ever completed.
C5_RetryOnlyWhileFailed ==
  /\ \A i \in 1..Len(attemptLog) :
       attemptLog[i] # "failed"
       => /\ i = Len(attemptLog)
          /\ rtPc = "done"
          /\ retResult = execution
          /\ runs = i
          /\ Len(sleeps) = i - 1
  /\ (rtPc = "done" /\ Len(attemptLog) > 0
        /\ \A i \in 1..Len(attemptLog) : attemptLog[i] = "failed")
     => /\ retResult = execution
        /\ retResult.status = "failed"
        /\ runs = Len(attemptLog)
  /\ rtPc = "done"
     => /\ (retResult = UnknownErrorExecution) <=> (Len(attemptLog) = 0)
        /\ (CountCode(retResult.errors, "UNKNOWN_ERROR") > 0) <=> (runs = 0)
        /\ \A i \in 1..Len(retResult.errors) :
             retResult.errors[i].retryable <=> retResult.errors[i].code # "UNKNOWN_ERROR"

C5_Witness ==
  /\ rtPc = "done"
  /\ attemptLog = <<"failed", "partial">>
  /\ retResult = execution
  /\ Len(sleeps) = 1

\* C6: the Retry Coordinator invokes the operation at most maxRetries + 1 times (4
\* with the default config), exactly maxRetries + 1 times when every attempt
\* fails, never again after an attempt has succeeded, and returns the result of
\* the first successful attempt.
C6_AtMostMaxRetriesPlusOneCalls ==
  /\ rcCalls <= retryConfig.maxRetries + 1
  /\ retryConfig.maxRetries = 3 => rcCalls <= 4
  /\ (rcPc = "done" /\ AllFailed(rcLog)) => rcCalls = retryConfig.maxRetries + 1
  /\ \A i \in 1..Len(rcLog) :
       rcLog[i].ok
       => /\ i = Len(rcLog)
          /\ rcCalls = i
          /\ rcPc = "done"
          /\ rcOutcome = [kind |-> "returned", value |-> rcLog[i].val]

C6_Witness ==
  /\ rcPc = "done"
  /\ retryConfig.maxRetries = 3
  /\ Len(rcLog) = 3
  /\ ~rcLog[1].ok
  /\ ~rcLog[2].ok
  /\ rcLog[3].ok
  /\ rcCalls = 3
  /\ rcOutcome.value = rcLog[3].val

\* the delays the claim lists, by position
ListedDelay(k) ==
  IF k <= 7 THEN <<1000, 2000, 4000, 8000, 16000, 30000, 30000>>[k] ELSE 30000

\* C7: the delay slept after the failure of attempt a is
\* min(initialDelay * multiplier^a, maxDelay): 1000, 2000, 4000, 8000, 16000, 30000,
\* 30000, ...; the delays never decrease, never exceed maxDelay, and no delay is
\* slept after the final failed attempt.
C7_DelaySequence ==
  /\ \A k \in 1..Len(rcDelays) :
       /\ rcDelays[k] = ListedDelay(k)
       /\ rcDelays[k] <= retryConfig.maxDelay
       /\ k > 1 => rcDelays[k - 1] <= rcDelays[k]
       /\ ~rcLog[k].ok
  /\ Len(rcDelays) <= retryConfig.maxRetries
  /\ Len(rcDelays) =
       IF rcPc = "done" /\ AllFailed(rcLog) THEN Len(rcLog) - 1 ELSE
       IF rcPc = "done" THEN Len(rcLog) - 1 ELSE Len(rcLog)
  /\ (rcPc = "done" /\ AllFailed(rcLog)) => Len(rcDelays) = retryConfig.maxRetries

C7_Witness ==
  /\ rcPc = "done"
  /\ AllFailed(rcLog)
  /\ Len(rcLog) = 8
  /\ rcDelays = <<1000, 2000, 4000, 8000, 16000, 30000, 30000>>

\* C8: when every attempt of the operation fails, the Retry Coordinator does not
\* throw or reject: it completes with the explicit exhausted value null, whatever
\* error each attempt raised.
C8_ExhaustionReturnsNull ==
  /\ rcOutcome.kind # "thrown"
  /\ (rcPc = "done" /\ AllFailed(rcLog))
     => rcOutcome = [kind |-> "returned", value |-> NullValue]

C8_Witness ==
  /\ rcPc = "done"
  /\ retryConfig.maxRetries = 3
  /\ Len(rcLog) = 4
  /\ AllFailed(rcLog)
  /\ rcLog[1].val # rcLog[4].val
  /\ rcOutcome = [kind |-> "returned", value |-> NullValue]

\* C9: for every list of N items and every worker whose calls each fulfil or
\* reject, processBatch returns successful + failed = N, successful the number of
\* fulfilled calls and failed the number of rejected ones, and each item is passed
\* to the worker exactly once.
C9_CountsAddUp ==
  /\ \A k \in 1..tasks : pbCalls[k] <= 1
  /\ pbPc = "done"
     => /\ pbResult.successful + pbResult.failed = tasks
        /\ pbResult.successful = Cardinality({k \in 1..tasks : pbState[k] = "fulfilled"})
        /\ pbResult.failed = Cardinality({k \in 1..tasks : pbState[k] = "rejected"})
        /\ \A k \in 1..tasks : pbCalls[k] = 1

C9_Witness ==
  /\ pbPc = "done"
  /\ tasks = 7
  /\ pbResult = [successful |-> 4, failed |-> 3]
  /\ pbState[7] = "rejected"

InFlight == {k \in 1..tasks : pbState[k] = "inflight"}

\* the group of item k: items 5g+1 .. 5g+5 (1-based) form group g
GroupOf(k) == (k - 1) \div 5

\* C10: at most 5 worker calls are in flight at any instant; no worker call of
\* group g+1 starts before every call of group g has settled; while a call of a
\* group has not settled, no later group has started and processBatch has not
\* completed.
C10_GroupsRunInSequence ==
  /\ Cardinality(InFlight) <= 5
  /\ \A j, k \in 1..tasks :
       (GroupOf(j) < GroupOf(k) /\ pbState[k] # "notstarted")
       => pbState[j] \in {"fulfilled", "rejected"}
  /\ \A j \in InFlight :
       /\ pbPc # "done"
       /\ pbResult = NoCounts
       /\ \A k \in 1..tasks : GroupOf(j) < GroupOf(k) => pbState[k] = "notstarted"

C10_Witness ==
  /\ tasks >= 10
  /\ InFlight = 6..10
  /\ \A j \in 1..5 : pbState[j] \in {"fulfilled", "rejected"}

\* calls of transformContent
InitTransform == CoreParked /\ FnParkedBut("tc") /\ TcInit
NextTransform == TransformContent
SpecTransform == InitTransform /\ [][NextTransform]_vars

\* polls of the scheduler while the clock advances and the task is executed
InitDue == CoreParked /\ FnParkedBut("du") /\ DuInit
NextDue == GetActiveTasks \/ FilterDue \/ Tick \/ UpdateLastExecuted
SpecDue == InitDue /\ [][NextDue]_vars

\* calls of scheduleTask
InitSchedule == CoreParked /\ FnParkedBut("st") /\ StInit
NextSchedule == ScheduleTask
SpecSchedule == InitSchedule /\ [][NextSchedule]_vars

\* calls of getOptimalScheduleTime
InitOptimal == CoreParked /\ FnParkedBut("op") /\ OpInit
NextOptimal == OptimalCall \/ OptimalReturn
SpecOptimal == InitOptimal /\ [][NextOptimal]_vars

\* calls of predictFailure
InitRisk == CoreParked /\ FnParkedBut("rk") /\ RkInit
NextRisk == PredictCall \/ PredictRate \/ PredictReturn
SpecRisk == InitRisk /\ [][NextRisk]_vars

\* calls of analyzeErrors
InitAnalyze == CoreParked /\ FnParkedBut("ae") /\ AeInit
NextAnalyze == AnalyzeCall \/ AnalyzeReturn
SpecAnalyze == InitAnalyze /\ [][NextAnalyze]_vars

\* calls of generatePerformanceReport
InitReport == CoreParked /\ FnParkedBut("rp") /\ RpInit
NextReport == ReportCall \/ ReportReturn
SpecReport == InitReport /\ [][NextReport]_vars

InitStore == CoreParked /\ FnParkedBut("mm") /\ MmInit
NextStore ==
  MemCreateTask \/ MemUpdateTask \/ MemDeleteTask \/ MemCreateExecution
    \/ MaintenanceCall \/ EnsureUserSettle \/ GetUserTasksSettle \/ ScanSettle
    \/ MaintenanceRest
SpecStore == InitStore /\ [][NextStore]_vars

InitAccounts == CoreParked /\ FnParkedBut("ac") /\ AcInit
NextAccounts ==
  \E r \in AcRequests :
    PostParse(r) \/ GetUserSettle(r) \/ CreateUserSettle(r) \/ GetOrCreateCall(r)
      \/ GetUserAccountsSettle(r) \/ PostRespond(r)
SpecAccounts == InitAccounts /\ [][NextAccounts]_vars

InitPoll == CoreParked /\ FnParkedBut("sc") /\ ScInit
NextPoll == PollCall \/ PollReturn \/ ExecuteDue \/ PauseTask

\* polls made while runs are in progress
InitOverlap == CoreParked /\ FnParkedBut("sc") /\ ScInit
NextOverlap == PollCall \/ PollReturn \/ RunStart \/ RunReturn
SpecOverlap == InitOverlap /\ [][NextOverlap]_vars
SpecPoll == InitPoll /\ [][NextPoll]_vars

\* one call of the coordinator's executeWithRetry next to other pending work, a
\* processBatch call; every attempt settles and every timer fires
InitRetryFair ==
  /\ RcInit
  /\ tasks \in 1..2
  /\ pbThrows = {}
  /\ PbIdle
  /\ EngParked
  /\ FnParked
NextRetryFair == RcStart \/ RcSettle \/ RcWake \/ PbStart \/ PbSettle \/ PbAdvance
SpecRetryFair ==
  InitRetryFair /\ [][NextRetryFair]_vars /\ WF_vars(RcSettle) /\ WF_vars(RcWake)

InitCache == CoreParked /\ FnParkedBut("ch") /\ ChInit
NextCache == SetCached \/ GetCached \/ ClearCache \/ CacheTick
SpecCache == InitCache /\ [][NextCache]_vars

InitUpdate == CoreParked /\ FnParkedBut("ut") /\ UtInit
NextUpdate ==
  ExecutorUpdate \/ DirectUpdate \/ PatchRequest \/ (\E c \in UtCallers : PgSelect(c) \/ PgUpdate(c))
SpecUpdate == InitUpdate /\ [][NextUpdate]_vars

\* C11: the failure of one item's worker, whether it rejects asynchronously or
\* throws while being started, never prevents the worker from being run for any
\* other item and never makes processBatch itself reject: all remaining items are
\* still processed and counted.
C11_FailureIsolated ==
  /\ pbPc # "rejected"
  /\ \A j \in 1..tasks :
       (pbState[j] \in {"rejected", "threw"} /\ pbPc \notin {"idle", "running"})
       => /\ pbPc = "done"
          /\ \A k \in 1..tasks : pbCalls[k] = 1
          /\ pbResult.successful + pbResult.failed = tasks

\* the maxima the claim lists
ListedMaxLength(platform) ==
  CASE platform = "twitter" -> 280
    [] platform \in {"tiktok", "instagram"} -> 2200
    [] platform = "facebook" -> 63206
    [] platform = "telegram" -> 4096
    [] platform = "linkedin" -> 3000
    [] platform = "threads" -> 500
    [] OTHER -> 10000

\* C12: for every text, every platform identifier and every combination of
\* prependText / appendText / addHashtags, the output of transformContent is at
\* most the platform's maximum long (280 twitter, 2200 tiktok/instagram, 63206
\* facebook, 4096 telegram, 3000 linkedin, 500 threads, 10000 default).
C12_OutputWithinPlatformMax ==
  tcPc = "done" => StrLen(tcResult) <= ListedMaxLength(tcPlatform)

C12_Witness ==
  /\ tcPc = "done"
  /\ tcPlatform = "twitter"
  /\ StrLen(tcText) = 279
  /\ TruthyStr(tcTransformations.prependText)
  /\ TruthyList(tcTransformations.addHashtags)
  /\ StrLen(tcResult) = 280
  /\ tcResult[Len(tcResult)] = [c |-> ".", n |-> 3]

\* t is one of the tasks the poll returned
InDue(t) == \E j \in 1..Len(dueTasks) : dueTasks[j] = t

\* the tasks of the poll that has returned
Polled == IF duPc = "done" THEN {allTasks[i] : i \in 1..Len(allTasks)} ELSE {}

\* C13: every active task whose execution mode is 'immediate' is in the due set
\* of every poll, whatever its scheduleTime, recurringPattern and lastExecuted.
C13_ImmediateAlwaysDue ==
  \A t \in Polled : (t.status = "active" /\ t.executionType = "immediate") => InDue(t)

C13_Witness ==
  \E t \in Polled :
    /\ t.status = "active" /\ t.executionType = "immediate"
    /\ t.scheduleTime.present /\ ~TimeLE(t.scheduleTime.val, pollNow)
    /\ t.recurringPattern = Present("custom")
    /\ t.lastExecuted = Present(pollNow)
    /\ InDue(t)

\* C14: every active recurring task whose lastExecuted is absent is in the due
\* set, for every value of recurringPattern including an absent one.
C14_RecurringNeverRunIsDue ==
  \A t \in Polled :
    (t.status = "active" /\ t.executionType = "recurring" /\ ~t.lastExecuted.present)
    => InDue(t)

\* the period of a pattern, in days
PeriodDays(pattern) ==
  CASE pattern = "daily" -> 1 [] pattern = "weekly" -> 7 [] pattern = "monthly" -> 30

\* the instant a whole period after the task's lastExecuted
PeriodEnd(t) ==
  Time(t.lastExecuted.val.d + PeriodDays(t.recurringPattern.val), t.lastExecuted.val.ms)

\* C15: an active recurring task with lastExecuted present and pattern daily /
\* weekly / monthly is due iff now - lastExecuted >= 24h / 7*24h / 30*24h: not
\* due one millisecond before the period has elapsed, due exactly at the boundary.
C15_DueIffPeriodElapsed ==
  \A t \in Polled :
    (/\ t.status = "active" /\ t.executionType = "recurring"
     /\ t.lastExecuted.present
     /\ t.recurringPattern.present
     /\ t.recurringPattern.val \in {"daily", "weekly", "monthly"})
    => (InDue(t) <=> TimeLE(PeriodEnd(t), pollNow))

\* a monthly task polled exactly 30 days after its last execution, and due
C15_Witness ==
  \E t \in Polled :
    /\ t.executionType = "recurring" /\ t.recurringPattern = Present("monthly")
    /\ t.lastExecuted.present
    /\ PeriodEnd(t) = pollNow
    /\ InDue(t)

\* C16 as stated: a recurring task whose pattern is not daily / weekly / monthly
\* is never in the due set, whether or not it has a lastExecuted value.
C16_UnrecognizedNeverDue ==
  \A t \in Polled :
    (/\ t.executionType = "recurring"
     /\ t.recurringPattern.present
     /\ t.recurringPattern.val \notin {"daily", "weekly", "monthly"})
    => ~InDue(t)

\* C16: a recurring task whose pattern is present but not daily / weekly /
\* monthly is in the due set iff it has no lastExecuted value: never due once it
\* has been executed, due at every poll before.
C16_UnrecognizedDueOnlyBeforeFirstRun ==
  \A t \in Polled :
    (/\ t.executionType = "recurring"
     /\ t.recurringPattern.present
     /\ t.recurringPattern.val \notin {"daily", "weekly", "monthly"})
    => (InDue(t) <=> ~t.lastExecuted.present)

\* a 'custom' task polled more than 30 days after its last execution, not due
C16_Witness ==
  \E t \in Polled :
    /\ t.status = "active" /\ t.executionType = "recurring"
    /\ t.recurringPattern = Present("custom")
    /\ t.lastExecuted.present
    /\ TimeLE(Time(t.lastExecuted.val.d + 30, t.lastExecuted.val.ms), pollNow)
    /\ ~InDue(t)

\* C17: an active scheduled task is in the due set iff its scheduleTime <= now;
\* it is never due before its scheduleTime, and a scheduled task stored without a
\* scheduleTime is never due.
C17_ScheduledDueIffTimeReached ==
  \A t \in Polled :
    (t.status = "active" /\ t.executionType = "scheduled")
    => (InDue(t) <=> (t.scheduleTime.present /\ TimeLE(t.scheduleTime.val, pollNow)))

\* a scheduled task polled exactly at its scheduleTime, after a poll before it
C17_Witness ==
  \E t \in Polled :
    /\ t.executionType = "scheduled"
    /\ t.scheduleTime = Present(pollNow)
    /\ ticks > 0
    /\ InDue(t)

RECURSIVE DaysBefore(_, _)
\* the number of days from 1 January 2023 to the first day of month m of year y
DaysBefore(y, m) ==
  IF m > 0 THEN DaysBefore(y, m - 1) + DaysIn(y, m - 1)
  ELSE IF y > 2023 THEN DaysBefore(y - 1, 11) + DaysIn(y - 1, 11)
  ELSE 0

\* the number of days from 1 January 2023 to the date
DayNumber(date) == DaysBefore(date.y, date.m) + date.d - 1

\* the result is the current time n days later, at the same time of the day
LaterByDays(n) ==
  /\ stResult.present
  /\ DayNumber(stResult.val) = DayNumber(stNow) + n
  /\ stResult.val.ms = stNow.ms
  /\ stResult.val.m \in 0..11
  /\ stResult.val.d \in 1..DaysIn(stResult.val.y, stResult.val.m)

\* the month after the current one, and its year
NextMonth == IF stNow.m = 11 THEN [y |-> stNow.y + 1, m |-> 0] ELSE [y |-> stNow.y, m |-> stNow.m + 1]

\* C18: scheduleTask returns the fixed scheduleTime for a scheduled task (none
\* if the task has no scheduleTime); for a
\* recurring task the current time advanced by one day (daily), 7 days (weekly)
\* or one calendar month (monthly: the same day of the next month, later by the
\* length of the current month), always strictly later than now; none for an
\* immediate task and for a recurring task with an unrecognized or absent pattern.
C18_NextRun ==
  stPc = "done" =>
    CASE stTask.executionType = "scheduled" ->
           /\ stResult.present = stTask.scheduleTime.present
           /\ stResult.present => stResult.val = stTask.scheduleTime.val
      [] stTask.executionType = "immediate" -> ~stResult.present
      [] stTask.executionType = "recurring" ->
           CASE stTask.recurringPattern = Present("daily") -> LaterByDays(1)
             [] stTask.recurringPattern = Present("weekly") -> LaterByDays(7)
             [] stTask.recurringPattern = Present("monthly") ->
                  /\ LaterByDays(DaysIn(stNow.y, stNow.m))
                  /\ DayNumber(stResult.val) > DayNumber(stNow)
                  /\ stNow.d <= DaysIn(NextMonth.y, NextMonth.m)
                     => stResult.val = Date(NextMonth.y, NextMonth.m, stNow.d, stNow.ms)
             [] OTHER -> ~stResult.present

\* a monthly task scheduled on 31 December of a leap year
C18_Witness ==
  /\ stPc = "done"
  /\ stTask.executionType = "recurring"
  /\ stTask.recurringPattern = Present("monthly")
  /\ stNow = Date(2024, 11, 31, DayMs - 1)
  /\ stResult = Present(Date(2025, 0, 31, DayMs - 1))

\* the indices of the successful executions of the history
OpSuccesses == {i \in 1..Len(opExecutions) : opExecutions[i].status = "success"}

RECURSIVE HourSum(_)
\* the sum of the hours of day of the executions with the given indices
HourSum(is) ==
  IF is = {} THEN 0
  ELSE LET i == CHOOSE k \in is : TRUE
       IN (opExecutions[i].executedAt.ms \div HourMs) + HourSum(is \ {i})

\* h is the mean of the successful executions' hours rounded to the nearest hour
IsRoundedMean(h) ==
  LET n == Cardinality(OpSuccesses)
  IN /\ 2 * n * h - n <= 2 * HourSum(OpSuccesses)
     /\ 2 * HourSum(OpSuccesses) < 2 * n * h + n

\* C19: getOptimalScheduleTime returns now + 60s when the task has no executions
\* or no successful one; otherwise an instant not in the past and at most 24h
\* ahead, at the hour that is the rounded mean of the hours of the successful
\* executions only, with zero minutes and seconds: today at that hour if that
\* has not passed yet, else tomorrow (hours 9, 9, 10, 11, 9, 10 give hour 10).
C19_OptimalScheduleTime ==
  opPc = "done" =>
    IF OpSuccesses = {}
      THEN Diff(opResult, opClock) = Time(0, FallbackDelayMs)
      ELSE LET h == opResult.ms \div HourMs
               today == Time(opClock.d, opResult.ms)
           IN /\ IsRoundedMean(h)
              /\ (opResult.ms % HourMs) < 1000
              /\ TimeLE(opNow2, opResult)
              /\ TimeLE(Diff(opResult, opNow2), Days(1))
              /\ opResult = IF TimeLE(opNow2, today) THEN today ELSE Time(today.d + 1, today.ms)
              /\ opExecutions = OpScenario => h = 10

\* the scenario's history asked about after 10 o'clock: tomorrow at 10
C19_Witness ==
  /\ opPc = "done"
  /\ opExecutions = OpScenario
  /\ opClock = Time(40, 10 * HourMs + 999)
  /\ opNow2 # opClock
  /\ opResult = Time(41, 10 * HourMs + 999)

\* more than 30% of a non-empty history failed
RkFactorA ==
  LET nFailed == Cardinality({i \in 1..Len(rkExecutions) : rkExecutions[i] = "failed"})
  IN rkExecutions # <<>> /\ 10 * nFailed > 3 * Len(rkExecutions)

\* the positions of task.sourceAccounts that name an existing, inactive account
RkInactive == {i \in 1..Len(rkSources) : rkAccounts[rkSources[i]] = "inactive"}

\* the task is more than 4 weeks old and has run fewer than 5 times
RkFactorC == (rkAge.d > 28 \/ (rkAge.d = 28 /\ rkAge.ms > 0)) /\ Len(rkExecutions) < 5

\* the risk level the claim gives to a combination of factors
RkLevel(a, b, c) == (IF a THEN 40 ELSE 0) + (IF b THEN 30 ELSE 0) + (IF c THEN 20 ELSE 0)

\* C20: predictFailure's riskLevel is 40 * [failure rate > 30%, history not
\* empty] + 30 * [an existing source account is inactive] + 20 * [age > 4 weeks
\* and fewer than 5 executions]; it is within 0..100, it is no more than the
\* level of any combination with further factors true, and the factors list
\* has exactly one entry per contributing factor, in that order.
C20_RiskLevel ==
  rkPc = "done" =>
    /\ rkResult.riskLevel = RkLevel(RkFactorA, RkInactive # {}, RkFactorC)
    /\ rkResult.riskLevel \in 0..100
    /\ \A a, b, c \in BOOLEAN :
         ((RkFactorA => a) /\ (RkInactive # {} => b) /\ (RkFactorC => c))
         => rkResult.riskLevel <= RkLevel(a, b, c)
    /\ rkResult.factors =
         (IF RkFactorA THEN <<"High historical failure rate">> ELSE <<>>)
         \o (IF RkInactive # {}
               THEN <<ToString(Cardinality(RkInactive)) \o " source account(s) inactive">>
               ELSE <<>>)
         \o (IF RkFactorC THEN <<"Old task with low execution count">> ELSE <<>>)

\* all three factors at once: level 90 and three entries
C20_Witness ==
  /\ rkPc = "done"
  /\ RkFactorA /\ Cardinality(RkInactive) = 2 /\ RkFactorC
  /\ rkResult.riskLevel = 90
  /\ Len(rkResult.factors) = 3

\* the positions of the failed executions of the history
AeFailed == {i \in 1..Len(aeExecutions) : aeExecutions[i].status = "failed"}

\* some failed execution has one of the given error messages
AeSomeFailure(msgs) == \E i \in AeFailed : aeExecutions[i].error \in {Present(m) : m \in msgs}

\* a failure with message "rate" is followed, as the next failure, by one with "limit"
AeRateThenLimit ==
  \E i, j \in AeFailed :
    /\ i < j
    /\ \A k \in AeFailed : ~(i < k /\ k < j)
    /\ aeExecutions[i].error = Present(StrRate)
    /\ aeExecutions[j].error = Present(StrLimit)

\* the result has an entry with this pattern and severity
AeReports(pattern, severity) ==
  \E k \in 1..Len(aeResult) : aeResult[k].pattern = pattern /\ aeResult[k].severity = severity

\* C21: analyzeErrors returns an empty list when no execution of the history is
\* 'failed'; otherwise it reports each pattern on its own condition: 'High
\* failure rate' (high) iff failed/total > 50%, 'Timeout errors' (medium) iff the
\* failures' error text contains "timeout", 'Authentication errors' (high) iff it
\* contains "unauthorized" or "401", 'Rate limiting' (medium) iff it contains
\* "rate limit"; a text with both "timeout" and "401" yields both patterns, and
\* no pattern is reported twice or beside these four.
C21_PatternsIndependent ==
  aePc = "done" =>
    IF AeFailed = {} THEN aeResult = <<>>
    ELSE /\ AeReports("High failure rate", "high")
              <=> 2 * Cardinality(AeFailed) > Len(aeExecutions)
         /\ AeReports("Timeout errors", "medium")
              <=> AeSomeFailure({StrTimeout, StrTimeoutAnd401})
         /\ AeReports("Authentication errors", "high")
              <=> AeSomeFailure({StrUnauthorized, Str401, StrTimeoutAnd401})
         /\ AeReports("Rate limiting", "medium")
              <=> (AeSomeFailure({StrRateLimit}) \/ AeRateThenLimit)
         /\ \A k \in 1..Len(aeResult) :
              /\ AeReports(aeResult[k].pattern, aeResult[k].severity)
              /\ <<aeResult[k].pattern, aeResult[k].severity>> \in
                   {<<"High failure rate", "high">>, <<"Timeout errors", "medium">>,
                    <<"Authentication errors", "high">>, <<"Rate limiting", "medium">>}
              /\ \A l \in 1..Len(aeResult) : aeResult[l].pattern = aeResult[k].pattern => l = k

\* one failure among two executions, its message holding "timeout" and "401":
\* exactly the two patterns
C21_Witness ==
  /\ aePc = "done"
  /\ Len(aeExecutions) = 2
  /\ Cardinality(AeFailed) = 1
  /\ AeSomeFailure({StrTimeoutAnd401})
  /\ Len(aeResult) = 2
  /\ AeReports("Timeout errors", "medium")
  /\ AeReports("Authentication errors", "high")

\* the numbers of successful executions and of all executions of the history
RpSuccessful == CopiesIn("success", rpExecutions)
RpTotal == BagCardinality(rpExecutions)

\* C22: generatePerformanceReport returns the fixed 'no data' report for an
\* empty history; for s successful executions out of n > 0 the one recommendation
\* is 'performing perfectly' iff s = n, 'investigate recent failures' iff
\* 80% < s/n < 100%, 'immediate investigation recommended' iff s/n <= 80%, and
\* uptime is the success rate as a percentage.
C22_RecommendationByRate ==
  rpPc = "done" =>
    IF RpTotal = 0 THEN rpResult = NoDataReport
    ELSE /\ Len(rpResult.recommendations) = 1
         /\ rpResult.recommendations[1] =
              (IF RpSuccessful = RpTotal THEN "Task is performing perfectly!"
               ELSE IF 100 * RpSuccessful > 80 * RpTotal
                 THEN "Consider investigating recent failures"
               ELSE "Immediate investigation recommended")
         /\ rpResult.uptime # "N/A"

PastInit == pc \in {"distribute", "update"} \/ (pc = "returned" /\ raised # "validation")

\* C24: when initializeClient fails for some of the resolved accounts, executeTask
\* goes on: every resolved account is initialized, distributeContent is called,
\* there is exactly one CLIENT_INIT_ERROR, retryable, per failed initialization,
\* and the failed initializations do not count as failed items: with no other
\* failure the run is a 'success'.
C24_InitFailuresDoNotAbort ==
  /\ CountCode(errors, "CLIENT_INIT_ERROR")
       = Cardinality({i \in 1..Len(initResults) : ~initResults[i]})
  /\ \A i \in 1..Len(errors) :
       errors[i].code = "CLIENT_INIT_ERROR"
       => /\ errors[i].retryable
          /\ \E k \in 1..Len(initResults) : ~initResults[k] /\ initCalls[k] = errors[i].accountId
  /\ PastInit
     => /\ initCalls = sourceAccounts \o destAccounts
        /\ Len(initResults) = Len(initCalls)
        /\ distCalls = <<destAccounts>>
  /\ pc = "returned"
     => /\ execution.itemsFailed = CountCode(execution.errors, "PUBLISH_ERROR")
                                     + CountCode(execution.errors, "EXECUTION_ERROR")
        /\ (raised = "none" /\ FailedResults(distResults) = <<>>)
           => execution.status = "success"

\* every initialization failed, and the run is a success all the same
C24_Witness ==
  /\ pc = "returned"
  /\ Len(initResults) >= 2
  /\ \A i \in 1..Len(initResults) : ~initResults[i]
  /\ distCalls # <<>>
  /\ execution.status = "success"
  /\ CountCode(execution.errors, "CLIENT_INIT_ERROR") = Len(initResults)

\* C25: an exception raised inside executeTask (account validation,
\* distributeContent throwing, updateTask throwing) is caught at the top level:
\* the run returns an execution all the same, with exactly one EXECUTION_ERROR,
\* retryable, for it, and itemsFailed is the number of failed publishes plus one.
C25_ExceptionsCaught ==
  /\ raised # "none" => (pc = "returned" /\ execution # NoExecution)
  /\ pc = "returned"
     => /\ CountCode(execution.errors, "EXECUTION_ERROR") = (IF raised = "none" THEN 0 ELSE 1)
        /\ \A i \in 1..Len(execution.errors) :
             execution.errors[i].code = "EXECUTION_ERROR"
             => (execution.errors[i].retryable /\ execution.errors[i].platform = "unknown")
        /\ execution.itemsFailed
             = Len(FailedResults(distResults)) + (IF raised = "none" THEN 0 ELSE 1)

\* updateTask threw after two publishes had failed: three failed items
C25_Witness ==
  /\ pc = "returned"
  /\ raised = "update"
  /\ Len(FailedResults(distResults)) = 2
  /\ execution.itemsFailed = 3
  /\ CountCode(execution.errors, "EXECUTION_ERROR") = 1

\* C26: in a run that passes account validation, initializeClient is attempted
\* exactly once for each distinct account of the resolved source and target
\* accounts, also for an account listed as source and as target or listed more
\* than once, and every initialization happens before distributeContent is called.
C26_EachAccountInitializedOnce ==
  /\ PastInit
     => \A id \in AccountIds :
          (\E i \in 1..Len(sourceAccounts \o destAccounts) :
             (sourceAccounts \o destAccounts)[i] = id)
          => Cardinality({k \in 1..Len(initCalls) : initCalls[k] = id}) = 1
  /\ distCalls # <<>> => Len(initResults) = Len(initCalls)

\* a call of the engine's executeWithRetry has returned and every attempt was 'failed'
EngineAllFailed ==
  /\ rtPc = "done"
  /\ \A i \in 1..Len(attemptLog) : attemptLog[i] = "failed"

\* C30: the engine's executeWithRetry follows the Retry Coordinator's policy:
\* with maxRetries = m a call whose every attempt is 'failed' makes m + 1
\* attempts, sleeps after every failed attempt but the last, and the delay
\* after attempt a is min(1000 * 2^a, 30000) ms.
C30_EngineRetryLikeCoordinator ==
  EngineAllFailed
  => /\ Len(attemptLog) = maxRetries + 1
     /\ Len(sleeps) = Len(attemptLog) - 1
     /\ \A a \in 1..Len(sleeps) :
          sleeps[a] = Min(InitialDelay * Pow(BackoffMultiplier, a - 1), MaxDelay)

C28_AccountKeyUnique ==
  \A i, j \in 1..Len(acAccounts) :
    (/\ acAccounts[i].userId = acAccounts[j].userId
     /\ acAccounts[i].platformId = acAccounts[j].platformId
     /\ acAccounts[i].accountId = acAccounts[j].accountId)
    => i = j

\* the runs started while the stored task was paused
PausedRuns(id) == {i \in 1..Len(started) : started[i].id = id /\ started[i].status = "paused"}

C40_FailedWithinProcessed ==
  pc = "returned"
  => /\ 0 <= execution.itemsFailed
     /\ execution.itemsFailed <= execution.itemsProcessed
     /\ distCalls # <<>> => execution.itemsProcessed = Len(destAccounts)

\* C34: within one call of the engine's executeWithRetry, a later attempt never
\* publishes again to a target account an earlier attempt published to
\* successfully.
C34_NoRepublishOnRetry ==
  (rtPc = "running" /\ pc \in {"distribute", "update"})
  => \A i \in 1..Len(destAccounts) : destAccounts[i] \notin posted

RECURSIVE Norm(_)
\* a run-length string with adjacent runs of one character merged
Norm(str) ==
  IF Len(str) <= 1 THEN str
  ELSE LET rest == Norm(Tail(str))
       IN  IF rest # <<>> /\ Head(rest).c = Head(str).c
             THEN <<[c |-> Head(str).c, n |-> Head(str).n + Head(rest).n]>> \o Tail(rest)
             ELSE <<Head(str)>> \o rest

RECURSIVE Concat(_)
Concat(strs) == IF strs = <<>> THEN <<>> ELSE Head(strs) \o Concat(Tail(strs))

\* the combined text, given which of the three transformations are applied
Combined(prepend, append, hashtags) ==
  Concat(<<IF prepend THEN tcTransformations.prependText.val \o Newline ELSE <<>>,
           tcText,
           IF append THEN Newline \o tcTransformations.appendText.val ELSE <<>>,
           IF hashtags
             THEN Newline \o Newline \o Join(tcTransformations.addHashtags.val, Lit(" ", 1))
             ELSE <<>> >>)

\* the result the claim describes for a combined text and the platform's limit
ResultFor(combined, limit) ==
  /\ StrLen(combined) <= limit => Norm(tcResult) = Norm(combined)
  /\ StrLen(combined) > limit
     => /\ Norm(tcResult) = Norm(Substring0(combined, limit - 3) \o Ellipsis)
        /\ StrLen(tcResult) = limit

\* C32 as stated: the prependText, appendText and hashtag block are added, in
\* that order, for each transformation that is present; the combined text is
\* returned unchanged when no longer than the platform limit L, else its first
\* L - 3 characters followed by '...', of length exactly L.
C32_TransformAppliesPresent ==
  tcPc = "done"
  => ResultFor(Combined(tcTransformations.prependText.present,
                        tcTransformations.appendText.present,
                        tcTransformations.addHashtags.present),
               getPlatformMaxLength(tcPlatform))

\* C32 amended: the same, for each transformation that is present and not empty
\* (a prependText or appendText of '' and an empty hashtag list add nothing).
C32_TransformAppliesNonEmpty ==
  tcPc = "done"
  => ResultFor(Combined(tcTransformations.prependText.present
                          /\ tcTransformations.prependText.val # <<>>,
                        tcTransformations.appendText.present
                          /\ tcTransformations.appendText.val # <<>>,
                        tcTransformations.addHashtags.present
                          /\ tcTransformations.addHashtags.val # <<>>),
               getPlatformMaxLength(tcPlatform))

\* all three transformations applied to a text at the limit: the result is cut
C32_Witness ==
  /\ tcPc = "done"
  /\ tcPlatform = "twitter"
  /\ StrLen(tcText) = getPlatformMaxLength(tcPlatform)
  /\ tcTransformations.prependText.val # <<>>
  /\ tcTransformations.appendText.val # <<>>
  /\ Len(tcTransformations.addHashtags.val) = 2
  /\ StrLen(tcResult) = getPlatformMaxLength(tcPlatform)

\* the states of the coordinator's machine
RcAttempting == rcPc = "attempting"
RcWaiting == rcPc = "waiting"
RcDoneSucceeded == rcPc = "done" /\ rcLog # <<>> /\ rcLog[Len(rcLog)].ok
RcDoneExhausted == rcPc = "done" /\ ~(rcLog # <<>> /\ rcLog[Len(rcLog)].ok)

\* the moves of the machine in one step
RcMoves ==
  /\ (RcAttempting /\ rcPc' # rcPc)
     => \/ RcDoneSucceeded'
        \/ /\ RcWaiting'
           /\ rcAttempt < retryConfig.maxRetries
           /\ rcAttempt' = rcAttempt
        \/ /\ RcDoneExhausted'
           /\ rcAttempt = retryConfig.maxRetries
  /\ RcAttempting' => (rcPc = "idle" /\ rcAttempt' = 0) \/ RcAttempting
                        \/ (RcWaiting /\ rcAttempt' = rcAttempt + 1)
  /\ (RcWaiting /\ rcPc' # rcPc) => RcAttempting'
  /\ rcPc = "done" => rcPc' = "done"

\* C31: the Retry Coordinator only moves Attempting(n) -> Succeeded,
\* Attempting(n) -> Waiting(d) when n < maxRetries, Waiting(d) -> Attempting(n+1)
\* and Attempting(maxRetries) -> Exhausted; when every attempt settles and every
\* timer fires a call eventually reaches Succeeded or Exhausted; and while the
\* call is Waiting, other pending work (a processBatch call) can take its steps.
C31_RetryStateMachine ==
  /\ [][RcMoves]_vars
  /\ (RcAttempting \/ RcWaiting) ~> (RcDoneSucceeded \/ RcDoneExhausted)
  /\ []((RcWaiting /\ pbPc # "done") => ENABLED (PbStart \/ PbSettle \/ PbAdvance))

\* the call is exhausted after two waits, and the batch has finished meanwhile
C31_Witness ==
  /\ RcDoneExhausted
  /\ retryConfig.maxRetries = 2
  /\ Len(rcDelays) = 2
  /\ rcCalls = 3
  /\ pbPc = "done"

\* C33: getCached(k) returns the value of the last setCached(k, v) not followed
\* by a clearCache while less than 5 minutes have passed since that setCached,
\* and the miss value null from 5 minutes on, after a clearCache, and for a key
\* never set; a later setCached(k, v') replaces the value and restarts the
\* window; what is done to another key does not matter.
C33_CacheTtl ==
  chFresh
  => chResult = IF lastSet[chKey].present
                   /\ chNow - lastSet[chKey].val.timestamp < 5 * 60 * 1000
                  THEN lastSet[chKey].val.data
                  ELSE NullValue

\* a miss for a key set exactly 5 minutes ago, the other key set since and still served
C33_Witness ==
  /\ chFresh
  /\ chResult = NullValue
  /\ lastSet[chKey].present
  /\ chNow - lastSet[chKey].val.timestamp = 5 * 60 * 1000
  /\ \E k \in CacheKeys \ {chKey} :
       lastSet[k].present /\ lastSet[k].val.timestamp > lastSet[chKey].val.timestamp

\* a Date as an instant: the day number and the millisecond of the day
Instant(date) == Time(DayNumber(date), date.ms)

\* C39: scheduleTask and the due check agree for every recurring pattern: a
\* recurring task last executed at t, for which scheduleTask evaluated at t
\* returns next, is not due the millisecond before next and is due at next.
C39_ScheduleAgreesWithDue ==
  (stPc = "done" /\ stTask.executionType = "recurring" /\ stResult.present) =>
    LET t == [recurringPattern |-> stTask.recurringPattern,
              lastExecuted |-> Present(Instant(stNow))]
        next == Instant(stResult.val)
    IN /\ RecurringDue(t, next)
       /\ ~RecurringDue(t, Ago(next, 1, DayMs - 1))

\* the stored task differs from what it was in lastExecuted at most
OnlyLastExecutedChanges == [dbTask' EXCEPT !.lastExecuted = dbTask.lastExecuted] = dbTask

\* an active task that is immediate, or scheduled for a time that has come
RunsEveryPoll(t) ==
  /\ t.status = "active"
  /\ IF t.executionType = "scheduled"
       THEN t.scheduleTime.present /\ TimeLE(t.scheduleTime.val, pollNow)
       ELSE t.executionType = "immediate"

\* C38: a run changes nothing on the stored task except lastExecuted: status,
\* executionType, scheduleTime and recurringPattern stay as they were; and an
\* active scheduled task whose scheduleTime has passed, like an active immediate
\* task, is in the due set of every poll, whatever its lastExecuted has become.
C38_RunLeavesTaskDue ==
  /\ [][OnlyLastExecutedChanges]_vars
  /\ [](\A t \in Polled : RunsEveryPoll(t) => InDue(t))

\* a scheduled task executed after its time had come, polled again and due
C38_Witness ==
  \E t \in Polled :
    /\ RunsEveryPoll(t) /\ t.executionType = "scheduled"
    /\ ticks = MaxTicks
    /\ t.lastExecuted = Present(pollNow)
    /\ InDue(t)

\* C36: updateTask changes only the supplied fields, also under interleaving:
\* once the executor's updateTask(id, {lastExecuted}) and a client's
\* updateTask(id, {status}) have both returned, the stored task has the
\* executor's lastExecuted and the client's status, with either adapter.
C36_BothUpdatesKept ==
  (utPc["executor"] = "done" /\ utPc["client"] = "done" /\ utReq.via = "db")
  => /\ utRow.lastExecuted = ExecTime
     /\ utRow.status = utReq.body.status

\* C37: a PATCH whose payload has no scheduleTime leaves the stored scheduleTime
\* as it was, so that a scheduled task paused and resumed is due as before.
C37_PatchKeepsScheduleTime ==
  (/\ utPc["client"] = "done" /\ utReq.via = "route"
   /\ "scheduleTime" \notin DOMAIN utReq.body)
  => utRow.scheduleTime = utRow0.scheduleTime

\* the runs in progress of recurring tasks
RecurringRuns == {r \in running : scStore[r.id].executionType = "recurring"}

\* C35: a poll that happens while a run of a recurring task, started from an
\* earlier poll, has not yet stored lastExecuted does not select the task
\* again, so that no two runs of one task are in progress together.
C35_NoOverlappingRuns ==
  /\ scPc # "fetched"
     => \A r \in RecurringRuns : r.poll < polls => r.id \notin selected
  /\ \A r1, r2 \in RecurringRuns : r1.id = r2.id => r1.poll = r2.poll

====
